---- MODULE Spec2Model ----
(***************************************************************************)
(* Data-joining and normalization layer of the SDG dashboard:              *)
(*   - identifier normalizers   (components/SdgChoropleth.tsx,             *)
(*                               hooks/useMsaValues.ts)                    *)
(*   - crosswalk builder        (utils/crosswalk.ts)                       *)
(*   - point joiner useMsaPoints (components/SdgChoropleth.tsx)            *)
(*   - value aggregator useMsaValues (hooks/useMsaValues.ts)               *)
(*   - CSV parser               (utils/csv.ts)                             *)
(*   - load effects of the hooks (useMsaValues, useMsaPoints,              *)
(*                               hooks/useCbsaCentroids.ts)                *)
(*                                                                         *)
(* A JavaScript string is a TLA+ string; its i-th UTF-16 unit is           *)
(* SubSeq(s, i, i).  The source text is ASCII except for the two dashes    *)
(* U+2013 and U+2014 in canon(); they are written "~" and "^" here (the    *)
(* inputs of the model use "~" and "^" for nothing else).                  *)
(*                                                                         *)
(* A JavaScript number is a record [k, n, d]: k = "Fin" with the reduced   *)
(* fraction n/d, k = "Inf" with sign n, or k = "NaN"; k = "Null" is the    *)
(* aggregator's null.  The inputs are decimals whose sums and means are    *)
(* exact in binary floating point.                                         *)
(***************************************************************************)
EXTENDS Integers, Sequences, FiniteSets, TLC

VARIABLES
    \* normalizer calls (pure functions): the call and its return value
    nzFn, nzIn, nzOut,
    \* buildMsaToCountiesFromList: its argument and its return value
    cwRows, cwMap, cwDone,
    \* useMsaPoints: React state, the selectedSDG argument, the memoized points
    msaRows, metroRows, ptLoading, selectedSDG, points,
    \* useMsaValues: React state, the sdgInput argument, the memoized maps
    rows, mvLoading, sdgInput, valueByName, valueByCbsa,
    \* parseCsvLine and fetchCSV: the call, its argument (a line, or the text of
    \* the response), the state of the promise, the value returned
    csvFn, csvIn, csvPhase, csvOut,
    \* useMsaValues: the year argument, the error state, the runs of the load effect
    year, mvError, mvLoads,
    \* useMsaPoints: the two fetchCSV promises, the position of the load effect
    ptFetchMsa, ptFetchMetro, ptPc,
    \* useCbsaCentroids: React state, the position of the load effect
    ccRows, ccPc,
    \* the messages of console.error
    consoleErrors,
    \* SdgChoropleth: the data prop, the __dataRecord of the features of the
    \* geojson prop, whether the GeoJSON layer exists, the hovered and the
    \* selected feature
    chData, chRecords, chLayer, chHovered, chSelected

nzVars == <<nzFn, nzIn, nzOut>>
cwVars == <<cwRows, cwMap, cwDone>>
ptVars == <<msaRows, metroRows, ptLoading, selectedSDG, points>>
mvVars == <<rows, mvLoading, sdgInput, valueByName, valueByCbsa>>
csvVars == <<csvFn, csvIn, csvPhase, csvOut>>
ldVars == <<year, mvError, mvLoads, ptFetchMsa, ptFetchMetro, ptPc, ccRows, ccPc, consoleErrors>>
chVars == <<chData, chRecords, chLayer, chHovered, chSelected>>
vars == <<nzVars, cwVars, ptVars, mvVars, csvVars, ldVars, chVars>>

(***************************************************************************)
(* Characters and strings                                                  *)
(***************************************************************************)
Ch(s, i) == SubSeq(s, i, i)
CharsOf(s) == {Ch(s, i) : i \in 1..Len(s)}

UpperLetters == "ABCDEFGHIJKLMNOPQRSTUVWXYZ"
LowerLetters == "abcdefghijklmnopqrstuvwxyz"
DigitChars == "0123456789"
\* printable ASCII in code-unit order: U+0020..U+005F and U+0061..U+007E
AsciiLow == " !\"#$%&'()*+,-./0123456789:;<=>?@ABCDEFGHIJKLMNOPQRSTUVWXYZ[\\]^_"
AsciiHigh == "abcdefghijklmnopqrstuvwxyz{|}~"

UpperSet == CharsOf(UpperLetters)
LowerSet == CharsOf(LowerLetters)
DigitSet == CharsOf(DigitChars)
\* the members of \s and of String.prototype.trim that the inputs use
WhiteSpace == {" ", "\t", "\n", "\r"}
QuoteSet == {"\"", "'"}
EnDash == "~"
EmDash == "^"

IndexIn(c, s) == CHOOSE i \in 1..Len(s) : Ch(s, i) = c
LowerOf == [c \in UpperSet |-> Ch(LowerLetters, IndexIn(c, UpperLetters))]
UpperOf == [c \in LowerSet |-> Ch(UpperLetters, IndexIn(c, LowerLetters))]
CodeOf == [c \in CharsOf(AsciiLow) \cup CharsOf(AsciiHigh) \cup {"\t", "\n", "\r"} |->
             CASE c = "\t" -> 9 [] c = "\n" -> 10 [] c = "\r" -> 13
               [] c \in CharsOf(AsciiLow) -> 31 + IndexIn(c, AsciiLow)
               [] OTHER -> 96 + IndexIn(c, AsciiHigh)]

RECURSIVE toLowerCase(_)
toLowerCase(s) ==
    IF s = "" THEN ""
    ELSE (IF Head(s) \in UpperSet THEN LowerOf[Head(s)] ELSE Head(s)) \o toLowerCase(Tail(s))

RECURSIVE toUpperCase(_)
toUpperCase(s) ==
    IF s = "" THEN ""
    ELSE (IF Head(s) \in LowerSet THEN UpperOf[Head(s)] ELSE Head(s)) \o toUpperCase(Tail(s))

RECURSIVE trimStart(_)
trimStart(s) == IF s # "" /\ Head(s) \in WhiteSpace THEN trimStart(Tail(s)) ELSE s

RECURSIVE trimEnd(_)
trimEnd(s) ==
    IF s # "" /\ Ch(s, Len(s)) \in WhiteSpace THEN trimEnd(SubSeq(s, 1, Len(s) - 1)) ELSE s

trim(s) == trimEnd(trimStart(s))

\* s.replace(/^["']+/, "")
RECURSIVE stripLeadingQuotes(_)
stripLeadingQuotes(s) ==
    IF s # "" /\ Head(s) \in QuoteSet THEN stripLeadingQuotes(Tail(s)) ELSE s

\* s.replace(/["']+$/, "")
RECURSIVE stripTrailingQuotes(_)
stripTrailingQuotes(s) ==
    IF s # "" /\ Ch(s, Len(s)) \in QuoteSet
    THEN stripTrailingQuotes(SubSeq(s, 1, Len(s) - 1)) ELSE s

\* (s ?? "").trim().replace(/^["']+|["']+$/g, "")
unquote(s) == stripTrailingQuotes(stripLeadingQuotes(trim(s)))

\* .replace(/[<U+2013><U+2014>]/g, "-")
RECURSIVE replaceDashes(_)
replaceDashes(s) ==
    IF s = "" THEN ""
    ELSE (IF Head(s) \in {EnDash, EmDash} THEN "-" ELSE Head(s)) \o replaceDashes(Tail(s))

\* .replace(/\./g, "")
RECURSIVE removeDots(_)
removeDots(s) ==
    IF s = "" THEN ""
    ELSE (IF Head(s) = "." THEN "" ELSE Head(s)) \o removeDots(Tail(s))

\* .replace(/\s+/g, " ")
RECURSIVE collapseSpaces(_)
collapseSpaces(s) ==
    IF s = "" THEN ""
    ELSE IF Head(s) \in WhiteSpace THEN " " \o collapseSpaces(trimStart(s))
    ELSE Head(s) \o collapseSpaces(Tail(s))

canon(s) == trim(collapseSpaces(removeDots(replaceDashes(toLowerCase(s)))))

IsDigits(s) == \A i \in 1..Len(s) : Ch(s, i) \in DigitSet

\* s.padStart(n, "0")
RECURSIVE padStart0(_, _)
padStart0(s, n) == IF Len(s) >= n THEN s ELSE padStart0("0" \o s, n)

\* the {1,2} of /^(\d{1,2})$/ and of /^sdg[-\s]?(\d{1,2})$/, and the padStart(2, "0")
GoalDigits == 2

\* s.match(/^(\d{1,2})$/): the captured digits, or <<>> for no match
matchNumOnly(s) == IF Len(s) \in 1..GoalDigits /\ IsDigits(s) THEN <<s>> ELSE <<>>

\* mutant of matchSdgNum: the separator class without \s
matchSdgNumNoSpace(s) ==
    IF Len(s) < 3 \/ SubSeq(s, 1, 3) # "sdg" THEN <<>>
    ELSE LET r == SubSeq(s, 4, Len(s)) IN
         IF matchNumOnly(r) # <<>> THEN <<r>>
         ELSE IF r # "" /\ Head(r) = "-" /\ matchNumOnly(Tail(r)) # <<>>
              THEN <<Tail(r)>> ELSE <<>>

\* s.match(/^sdg[-\s]?(\d{1,2})$/): the captured digits, or <<>> for no match
matchSdgNum(s) ==
    IF Len(s) < 3 \/ SubSeq(s, 1, 3) # "sdg" THEN <<>>
    ELSE LET r == SubSeq(s, 4, Len(s)) IN
         IF matchNumOnly(r) # <<>> THEN <<r>>
         ELSE IF r # "" /\ Head(r) \in ({"-"} \cup WhiteSpace) /\ matchNumOnly(Tail(r)) # <<>>
              THEN <<Tail(r)>> ELSE <<>>

normalizeSdg(raw) ==
    LET s == canon(unquote(raw)) IN
    IF s = "" \/ s = "overall" \/ s = "all" \/ s = "total" THEN "overall"
    ELSE IF matchNumOnly(s) # <<>> THEN "SDG-" \o padStart0(matchNumOnly(s)[1], GoalDigits)
    ELSE IF matchSdgNum(s) # <<>> THEN "SDG-" \o padStart0(matchSdgNum(s)[1], GoalDigits)
    ELSE toUpperCase(s)

(***************************************************************************)
(* State tokens and area names                                             *)
(***************************************************************************)
STATE_NAMES == <<
    <<"alabama", "al">>,
    <<"alaska", "ak">>,
    <<"arizona", "az">>,
    <<"arkansas", "ar">>,
    <<"california", "ca">>,
    <<"colorado", "co">>,
    <<"connecticut", "ct">>,
    <<"delaware", "de">>,
    <<"florida", "fl">>,
    <<"georgia", "ga">>,
    <<"hawaii", "hi">>,
    <<"idaho", "id">>,
    <<"illinois", "il">>,
    <<"indiana", "in">>,
    <<"iowa", "ia">>,
    <<"kansas", "ks">>,
    <<"kentucky", "ky">>,
    <<"louisiana", "la">>,
    <<"maine", "me">>,
    <<"maryland", "md">>,
    <<"massachusetts", "ma">>,
    <<"michigan", "mi">>,
    <<"minnesota", "mn">>,
    <<"mississippi", "ms">>,
    <<"missouri", "mo">>,
    <<"montana", "mt">>,
    <<"nebraska", "ne">>,
    <<"nevada", "nv">>,
    <<"new hampshire", "nh">>,
    <<"new jersey", "nj">>,
    <<"new mexico", "nm">>,
    <<"new york", "ny">>,
    <<"north carolina", "nc">>,
    <<"north dakota", "nd">>,
    <<"ohio", "oh">>,
    <<"oklahoma", "ok">>,
    <<"oregon", "or">>,
    <<"pennsylvania", "pa">>,
    <<"rhode island", "ri">>,
    <<"south carolina", "sc">>,
    <<"south dakota", "sd">>,
    <<"tennessee", "tn">>,
    <<"texas", "tx">>,
    <<"utah", "ut">>,
    <<"vermont", "vt">>,
    <<"virginia", "va">>,
    <<"washington", "wa">>,
    <<"west virginia", "wv">>,
    <<"wisconsin", "wi">>,
    <<"wyoming", "wy">>,
    <<"district of columbia", "dc">>,
    <<"washington dc", "dc">>
>>

STATE_ABBR == [i \in 1..Len(STATE_NAMES) |-> STATE_NAMES[i][2]]

\* STATE_ABBR[t]: <<abbr>> when t is a key of the table, <<>> for undefined
stateAbbrLookup(t) ==
    IF \E i \in 1..Len(STATE_NAMES) : STATE_NAMES[i][1] = t
    THEN <<STATE_ABBR[CHOOSE i \in 1..Len(STATE_NAMES) : STATE_NAMES[i][1] = t]>>
    ELSE <<>>

\* t.match(/^[a-z]{2}/): the matched prefix, or <<>> for no match
matchTwoLetters(t) ==
    IF Len(t) >= 2 /\ Ch(t, 1) \in LowerSet /\ Ch(t, 2) \in LowerSet
    THEN <<SubSeq(t, 1, 2)>> ELSE <<>>

normStateToken(raw) ==
    LET t == canon(unquote(raw)) IN
    IF t = "" THEN ""
    ELSE IF matchTwoLetters(t) # <<>> THEN matchTwoLetters(t)[1]
    ELSE IF stateAbbrLookup(t) # <<>> THEN stateAbbrLookup(t)[1]
    ELSE IF stateAbbrLookup(collapseSpaces(t)) # <<>> THEN stateAbbrLookup(collapseSpaces(t))[1]
    ELSE ""

\* s.split(",")[i] ?? "" for i = 0 and i = 1
RECURSIVE beforeComma(_)
beforeComma(s) ==
    IF s = "" \/ Head(s) = "," THEN "" ELSE Head(s) \o beforeComma(Tail(s))

RECURSIVE afterComma(_)
afterComma(s) ==
    IF s = "" THEN "" ELSE IF Head(s) = "," THEN Tail(s) ELSE afterComma(Tail(s))

splitPart0(s) == beforeComma(s)
splitPart1(s) == beforeComma(afterComma(s))

normalizeAreaName(raw) ==
    LET norm == canon(unquote(raw)) IN
    IF norm = "" THEN [city |-> "", state |-> ""]
    ELSE [city |-> canon(splitPart0(norm)), state |-> normStateToken(splitPart1(norm))]

METRO_SUFFIXES == {"metropolitan statistical area", "metropolitan area", "metro area", "metro"}

\* whether /^\s*(metropolitan statistical area|metropolitan area|metro area|metro)\s*$/i
\* matches u
isMetroSuffix(u) == trim(toLowerCase(u)) \in METRO_SUFFIXES

\* metro.replace(/\s*(...)\s*$/i, ""): the leftmost match is removed
stripMetroSuffix(metro) ==
    LET starts == {i \in 1..Len(metro) : isMetroSuffix(SubSeq(metro, i, Len(metro)))} IN
    IF starts = {} THEN metro
    ELSE SubSeq(metro, 1, (CHOOSE i \in starts : \A j \in starts : i <= j) - 1)

\* mutant of normalizeMetroName: the state_id hint is preferred to the state
\* of the name
normalizeMetroNameHintFirst(metro, stateId) ==
    LET norm == canon(unquote(stripMetroSuffix(metro)))
        hint == IF stateId # "" THEN stateId ELSE normStateToken(splitPart1(norm))
    IN [city |-> canon(splitPart0(norm)), state |-> normStateToken(hint)]

normalizeMetroName(metro, stateId) ==
    LET norm == canon(unquote(stripMetroSuffix(metro)))
        city == canon(splitPart0(norm))
        stateFromName == normStateToken(splitPart1(norm))
        hint == IF stateFromName # "" THEN stateFromName ELSE stateId
    IN [city |-> city, state |-> normStateToken(hint)]

(***************************************************************************)
(* Idle values of each component's variables, for the specifications that  *)
(* do not run it                                                           *)
(***************************************************************************)
NzIdle == nzFn = "idle" /\ nzIn = "" /\ nzOut = <<>>
CwIdle == cwRows = <<>> /\ cwMap = <<>> /\ cwDone = FALSE
PtIdle == /\ msaRows = <<>> /\ metroRows = <<>> /\ ptLoading = FALSE
          /\ selectedSDG = "" /\ points = <<>>
MvIdle == /\ rows = <<>> /\ mvLoading = FALSE /\ sdgInput = ""
          /\ valueByName = <<>> /\ valueByCbsa = <<>>
CsvIdle == csvFn = "idle" /\ csvIn = "" /\ csvPhase = "idle" /\ csvOut = <<>>
ChIdle == /\ chData = <<>> /\ chRecords = <<>> /\ chLayer = FALSE
          /\ chHovered = <<>> /\ chSelected = <<>>
LdIdle == /\ year = 0 /\ mvError = <<>> /\ mvLoads = <<>>
          /\ ptFetchMsa = <<>> /\ ptFetchMetro = <<>> /\ ptPc = "idle"
          /\ ccRows = <<>> /\ ccPc = "idle"
          /\ consoleErrors = <<>>

(***************************************************************************)
(* Normalizer calls: Init draws the function and its argument, the action  *)
(* applies the function.                                                   *)
(***************************************************************************)
\* longest free-form argument of normalizeSdg
MaxSdgLen == 3
SdgAlphabet == {"s", "D", "g", "1", "-", " ", "\"", "."}

RECURSIVE StringsUpTo(_, _)
StringsUpTo(alphabet, n) ==
    IF n = 0 THEN {""}
    ELSE LET shorter == StringsUpTo(alphabet, n - 1) IN
         shorter \cup {s \o c : s \in {u \in shorter : Len(u) = n - 1}, c \in alphabet}

SdgFreeInputs == StringsUpTo(SdgAlphabet, MaxSdgLen)

\* every spelling of a goal number: <<the spelling, its digits>>
SdgPrefixes == {a \o b \o c : a \in {"s", "S"}, b \in {"d", "D"}, c \in {"g", "G"}}
GoalNumbers == StringsUpTo(DigitSet, GoalDigits) \ {""}
SdgSpellings ==
    {<<ds, ds>> : ds \in GoalNumbers}
    \cup {<<p \o sep \o ds, ds>> : p \in SdgPrefixes, sep \in {"", "-", " "}, ds \in GoalNumbers}

SdgInputs == SdgFreeInputs \cup {e[1] : e \in SdgSpellings}

\* "new york" -> "New York"
RECURSIVE titleCase(_, _)
titleCase(s, atWordStart) ==
    IF s = "" THEN ""
    ELSE (IF atWordStart THEN toUpperCase(Head(s)) ELSE Head(s))
         \o titleCase(Tail(s), Head(s) = " ")

\* the spellings of the state of table entry i: <<the spelling, the table's abbreviation>>
StateForms(i) ==
    LET full == STATE_NAMES[i][1]
        abbr == STATE_NAMES[i][2]
    IN {<<full, abbr>>, <<titleCase(full, TRUE), abbr>>, <<toUpperCase(full), abbr>>,
        <<abbr, abbr>>, <<toUpperCase(abbr), abbr>>}

StateSpellings == UNION {StateForms(i) : i \in 1..Len(STATE_NAMES)}
StateInputs == {e[1] : e \in StateSpellings} \cup {"", "zz", "1", "puerto rico", "d c"}

InitNorm ==
    /\ \/ nzFn = "normalizeSdg" /\ nzIn \in SdgInputs
       \/ nzFn = "normStateToken" /\ nzIn \in StateInputs
    /\ nzOut = <<>>
    /\ CwIdle /\ PtIdle /\ MvIdle /\ CsvIdle /\ ChIdle /\ LdIdle

CallNormalizeSdg ==
    /\ nzFn = "normalizeSdg" /\ nzOut = <<>>
    /\ nzOut' = <<normalizeSdg(nzIn)>>
    /\ UNCHANGED <<nzFn, nzIn, cwVars, ptVars, mvVars, csvVars, ldVars, chVars>>

CallNormStateToken ==
    /\ nzFn = "normStateToken" /\ nzOut = <<>>
    /\ nzOut' = <<normStateToken(nzIn)>>
    /\ UNCHANGED <<nzFn, nzIn, cwVars, ptVars, mvVars, csvVars, ldVars, chVars>>

NextNorm == CallNormalizeSdg \/ CallNormStateToken

SpecNorm == InitNorm /\ [][NextNorm]_vars

(***************************************************************************)
(* Claims on the normalizers                                               *)
(***************************************************************************)
\* C8: normStateToken maps a state's full name, its uppercase abbreviation and
\* its lowercase abbreviation to the abbreviation the full-name table gives.
C8_StateTokenFromTable ==
    (nzFn = "normStateToken" /\ nzOut # <<>>) =>
        \A e \in StateSpellings : e[1] = nzIn => nzOut[1] = e[2]

\* C9: normalizeSdg is idempotent: applied to its own result it returns that result.
C9_NormalizeSdgIdempotent ==
    (nzFn = "normalizeSdg" /\ nzOut # <<>>) => normalizeSdg(nzOut[1]) = nzOut[1]

\* C10: every spelling of a 1-2 digit goal number n (bare, or "sdg" followed by
\* nothing, a hyphen or a space, in any letter case) normalizes to "SDG-" and n
\* zero-padded to 2 digits.
C10_GoalSpellings ==
    (nzFn = "normalizeSdg" /\ nzOut # <<>>) =>
        \A e \in SdgSpellings :
            e[1] = nzIn => nzOut[1] = (IF Len(e[2]) = 1 THEN "SDG-0" \o e[2] ELSE "SDG-" \o e[2])

C10_Witness ==
    nzFn = "normalizeSdg" /\ nzIn = "sDg 7" /\ nzOut = <<"SDG-07">>

(***************************************************************************)
(* Crosswalk builder (utils/crosswalk.ts)                                  *)
(*                                                                         *)
(* A cell of a RawRow (Record<string, any>) is [t, n, s]: t is the type    *)
(* ("number", "string", "null"), n the number, s the string.  A RawRow is  *)
(* a function from its column names to cells; a column it does not have    *)
(* reads as undefined.                                                     *)
(***************************************************************************)
JsUndefined == [t |-> "undefined", n |-> 0, s |-> ""]
JsNull == [t |-> "null", n |-> 0, s |-> ""]
JsNum(i) == [t |-> "number", n |-> i, s |-> ""]
JsStr(str) == [t |-> "string", n |-> 0, s |-> str]

\* row[k]
cell(row, k) == IF k \in DOMAIN row THEN row[k] ELSE JsUndefined

\* v == null
isNullish(v) == v.t \in {"undefined", "null"}

\* a ?? b
coalesce(a, b) == IF isNullish(a) THEN b ELSE a

\* !v
isFalsy(v) ==
    \/ isNullish(v)
    \/ v.t = "string" /\ v.s = ""
    \/ v.t = "number" /\ v.n = 0

\* String(i) for an integer i
RECURSIVE natToString(_)
natToString(i) ==
    IF i < 10 THEN Ch(DigitChars, i + 1)
    ELSE natToString(i \div 10) \o Ch(DigitChars, (i % 10) + 1)

\* String(v)
jsToString(v) ==
    CASE v.t = "string" -> v.s
      [] v.t = "number" -> IF v.n < 0 THEN "-" \o natToString(-v.n) ELSE natToString(v.n)
      [] v.t = "null" -> "null"
      [] OTHER -> "undefined"

toGeoId(state, county) ==
    padStart0(jsToString(coalesce(state, JsStr(""))), 2)
    \o padStart0(jsToString(coalesce(county, JsStr(""))), 3)

\* a < b in the default order of Array.prototype.sort (by UTF-16 code units)
RECURSIVE strLess(_, _)
strLess(a, b) ==
    IF b = "" THEN FALSE
    ELSE IF a = "" THEN TRUE
    ELSE IF Head(a) = Head(b) THEN strLess(Tail(a), Tail(b))
    ELSE CodeOf[Head(a)] < CodeOf[Head(b)]

\* Array.from(new Set(list)): first occurrences, in order
RECURSIVE uniq(_)
uniq(list) ==
    IF list = <<>> THEN <<>>
    ELSE LET init == uniq(SubSeq(list, 1, Len(list) - 1))
             last == list[Len(list)]
         IN IF \E i \in 1..Len(init) : init[i] = last THEN init ELSE Append(init, last)

\* one insertion of Array.prototype.sort() with the default comparison
RECURSIVE insertSorted(_, _)
insertSorted(sorted, x) ==
    IF sorted = <<>> THEN <<x>>
    ELSE IF strLess(x, Head(sorted)) THEN <<x>> \o sorted
    ELSE <<Head(sorted)>> \o insertSorted(Tail(sorted), x)

\* list.sort()
RECURSIVE sortStrings(_)
sortStrings(list) ==
    IF list = <<>> THEN <<>>
    ELSE insertSorted(sortStrings(SubSeq(list, 1, Len(list) - 1)), list[Len(list)])

rowTitle(row) ==
    coalesce(cell(row, "CBSA Title"),
    coalesce(cell(row, "Metropolitan/Micropolitan Statistical Area"),
    coalesce(cell(row, "Title"), cell(row, "Unnamed: 3"))))

rowStateFips(row) ==
    coalesce(cell(row, "FIPS State Code"),
    coalesce(cell(row, "State FIPS"), cell(row, "Unnamed: 9")))

rowCountyFips(row) ==
    coalesce(cell(row, "FIPS County Code"),
    coalesce(cell(row, "County FIPS"), cell(row, "Unnamed: 10")))

\* mutant of rowSkipped: a falsy FIPS value (the number 0) skips the row too
rowSkippedFalsyFips(row) ==
    isFalsy(rowTitle(row)) \/ isFalsy(rowStateFips(row)) \/ isFalsy(rowCountyFips(row))

\* if (!title || stateFips == null || countyFips == null) continue
rowSkipped(row) ==
    isFalsy(rowTitle(row)) \/ isNullish(rowStateFips(row)) \/ isNullish(rowCountyFips(row))

\* the first loop: map[msa] is the list of the GEOIDs pushed for msa, in row order
RECURSIVE pushedGeoIds(_, _)
pushedGeoIds(list, msa) ==
    IF list = <<>> THEN <<>>
    ELSE LET init == pushedGeoIds(SubSeq(list, 1, Len(list) - 1), msa)
             row == list[Len(list)]
         IN IF ~rowSkipped(row) /\ trim(jsToString(rowTitle(row))) = msa
            THEN Append(init, toGeoId(rowStateFips(row), rowCountyFips(row)))
            ELSE init

\* mutant of finishList: the duplicates are kept
finishListKeepDuplicates(list) == sortStrings(list)

\* the second loop: Array.from(new Set(map[k])).sort()
finishList(list) == sortStrings(uniq(list))

buildMsaToCountiesFromList(list) ==
    LET keys == {trim(jsToString(rowTitle(list[i]))) : i \in {j \in 1..Len(list) : ~rowSkipped(list[j])}}
    IN [k \in keys |-> finishList(pushedGeoIds(list, k))]

\* the rows the builder is called with
CwRowPool == {
    [x \in {"CBSA Title", "FIPS State Code", "FIPS County Code"} |->
        CASE x = "CBSA Title" -> JsStr("Anchorage, AK")
          [] x = "FIPS State Code" -> JsNum(2) [] OTHER -> JsNum(20)],
    [x \in {"CBSA Title", "FIPS State Code", "FIPS County Code"} |->
        CASE x = "CBSA Title" -> JsStr("Anchorage, AK")
          [] x = "FIPS State Code" -> JsNum(2) [] OTHER -> JsNum(170)],
    [x \in {"Title", "State FIPS", "County FIPS"} |->
        CASE x = "Title" -> JsStr(" Anchorage, AK ")
          [] x = "State FIPS" -> JsStr("02") [] OTHER -> JsStr("020")],
    [x \in {"Unnamed: 3", "Unnamed: 9", "Unnamed: 10"} |->
        CASE x = "Unnamed: 3" -> JsStr("Fairbanks, AK")
          [] x = "Unnamed: 9" -> JsNum(2) [] OTHER -> JsNum(90)],
    [x \in {"CBSA Title", "FIPS State Code", "FIPS County Code"} |->
        CASE x = "CBSA Title" -> JsStr("Fairbanks, AK")
          [] x = "FIPS State Code" -> JsNum(0) [] OTHER -> JsNum(0)],
    [x \in {"FIPS State Code", "FIPS County Code"} |->
        CASE x = "FIPS State Code" -> JsNum(2) [] OTHER -> JsNum(20)],
    [x \in {"CBSA Title", "FIPS State Code", "FIPS County Code"} |->
        CASE x = "CBSA Title" -> JsStr("")
          [] x = "FIPS State Code" -> JsNum(2) [] OTHER -> JsNum(20)],
    [x \in {"CBSA Title", "FIPS State Code", "FIPS County Code"} |->
        CASE x = "CBSA Title" -> JsStr("Anchorage, AK")
          [] x = "FIPS State Code" -> JsNull [] OTHER -> JsNum(20)],
    [x \in {"CBSA Title", "FIPS State Code"} |->
        CASE x = "CBSA Title" -> JsStr("Anchorage, AK") [] OTHER -> JsNum(2)],
    [x \in {"CBSA Title", "FIPS State Code", "FIPS County Code"} |->
        CASE x = "CBSA Title" -> JsStr("Anchorage, AK")
          [] x = "FIPS State Code" -> JsNum(100) [] OTHER -> JsNum(20)],
    [x \in {"CBSA Title", "FIPS State Code", "FIPS County Code"} |->
        CASE x = "CBSA Title" -> JsStr("Fairbanks, AK")
          [] x = "FIPS State Code" -> JsStr("AK") [] OTHER -> JsNum(90)] }

\* most rows in one call of the builder
MaxCwRows == 3

RECURSIVE SeqsUpTo(_, _)
SeqsUpTo(S, n) ==
    IF n = 0 THEN {<<>>}
    ELSE LET shorter == SeqsUpTo(S, n - 1) IN
         shorter \cup {Append(q, x) : q \in {u \in shorter : Len(u) = n - 1}, x \in S}

InitCw ==
    /\ cwRows \in SeqsUpTo(CwRowPool, MaxCwRows)
    /\ cwMap = <<>> /\ cwDone = FALSE
    /\ NzIdle /\ PtIdle /\ MvIdle /\ CsvIdle /\ ChIdle /\ LdIdle

CallBuildMsaToCounties ==
    /\ ~cwDone
    /\ cwMap' = buildMsaToCountiesFromList(cwRows)
    /\ cwDone' = TRUE
    /\ UNCHANGED <<cwRows, nzVars, ptVars, mvVars, csvVars, ldVars, chVars>>

NextCw == CallBuildMsaToCounties

SpecCw == InitCw /\ [][NextCw]_vars

(***************************************************************************)
(* Claims on the crosswalk builder                                         *)
(***************************************************************************)
\* the GEOIDs of the non-skipped rows whose trimmed title is k
GeoIdsOfTitle(k) ==
    {toGeoId(rowStateFips(cwRows[i]), rowCountyFips(cwRows[i])) :
        i \in {j \in 1..Len(cwRows) :
                 ~rowSkipped(cwRows[j]) /\ trim(jsToString(rowTitle(cwRows[j]))) = k}}

\* C6: for every MSA title of the result, its GEOID list has no duplicates, is
\* sorted ascending lexicographically and holds exactly the GEOIDs of the
\* non-skipped rows whose trimmed title is that key.
C6_SortedDedupedGeoIds ==
    cwDone =>
        \A k \in DOMAIN cwMap :
            LET l == cwMap[k] IN
            /\ \A i \in 1..Len(l) : \A j \in 1..Len(l) : i < j => strLess(l[i], l[j])
            /\ {l[i] : i \in 1..Len(l)} = GeoIdsOfTitle(k)
            /\ (\A i \in 1..Len(cwRows) :
                    /\ cell(cwRows[i], "CBSA Title") = JsStr("Anchorage, AK")
                    /\ cell(cwRows[i], "FIPS State Code") = JsNum(2)
                    /\ cell(cwRows[i], "FIPS County Code") \in {JsNum(20), JsNum(170)})
               => (k = "Anchorage, AK" /\ l \in {<<"02020">>, <<"02170">>, <<"02020", "02170">>})

C6_Witness ==
    /\ cwDone
    /\ Len(cwRows) = 3
    /\ cell(cwRows[1], "FIPS County Code") = JsNum(170)
    /\ cell(cwRows[2], "County FIPS") = JsStr("020")
    /\ cell(cwRows[3], "FIPS County Code") = JsNum(20)
    /\ "Anchorage, AK" \in DOMAIN cwMap
    /\ cwMap["Anchorage, AK"] = <<"02020", "02170">>

\* C7: every GEOID placed in the crosswalk is exactly 5 characters long and
\* consists of digits only.
C7_GeoIdFiveDigits ==
    cwDone =>
        \A k \in DOMAIN cwMap : \A i \in 1..Len(cwMap[k]) :
            Len(cwMap[k][i]) = 5 /\ IsDigits(cwMap[k][i])

\* the first of the columns of a row that is neither missing nor null
FirstPresent(row, columns) ==
    IF \E i \in 1..Len(columns) : cell(row, columns[i]).t \notin {"undefined", "null"}
    THEN cell(row, columns[CHOOSE i \in 1..Len(columns) :
                        /\ cell(row, columns[i]).t \notin {"undefined", "null"}
                        /\ \A j \in 1..(i - 1) : cell(row, columns[j]).t \in {"undefined", "null"}])
    ELSE JsUndefined
TitleOf(row) ==
    FirstPresent(row, <<"CBSA Title", "Metropolitan/Micropolitan Statistical Area", "Title", "Unnamed: 3">>)
StateFipsOf(row) == FirstPresent(row, <<"FIPS State Code", "State FIPS", "Unnamed: 9">>)
CountyFipsOf(row) == FirstPresent(row, <<"FIPS County Code", "County FIPS", "Unnamed: 10">>)

\* the rows with a truthy title and both FIPS values present (0 is present)
KeptRows ==
    {i \in 1..Len(cwRows) :
        /\ TitleOf(cwRows[i]) \notin {JsUndefined, JsNull, JsStr(""), JsNum(0)}
        /\ StateFipsOf(cwRows[i]).t \notin {"undefined", "null"}
        /\ CountyFipsOf(cwRows[i]).t \notin {"undefined", "null"}}

\* C24: a row contributes no key and no GEOID exactly when its title is falsy
\* or its state or county FIPS is null or undefined: the keys are the trimmed
\* titles of the other rows and the GEOIDs of a key are those of the other
\* rows of that title; a FIPS value that is the number 0 keeps the row and is
\* zero-padded into the GEOID.
C24_SkippedRows ==
    cwDone =>
        /\ DOMAIN cwMap = {trim(jsToString(TitleOf(cwRows[i]))) : i \in KeptRows}
        /\ \A k \in DOMAIN cwMap :
              {cwMap[k][n] : n \in 1..Len(cwMap[k])} =
                  {toGeoId(StateFipsOf(cwRows[i]), CountyFipsOf(cwRows[i])) :
                      i \in {j \in KeptRows : trim(jsToString(TitleOf(cwRows[j]))) = k}}
        /\ \A i \in 1..Len(cwRows) :
              (/\ cell(cwRows[i], "CBSA Title") = JsStr("Fairbanks, AK")
               /\ cell(cwRows[i], "FIPS State Code") = JsNum(0)
               /\ cell(cwRows[i], "FIPS County Code") = JsNum(0))
              => /\ "Fairbanks, AK" \in DOMAIN cwMap
                 /\ \E n \in 1..Len(cwMap["Fairbanks, AK"]) : cwMap["Fairbanks, AK"][n] = "00000"

C24_Witness ==
    /\ cwDone
    /\ Len(cwRows) = 3
    /\ cell(cwRows[1], "FIPS State Code") = JsNum(0)
    /\ cell(cwRows[1], "FIPS County Code") = JsNum(0)
    /\ cell(cwRows[2], "CBSA Title") = JsStr("")
    /\ cell(cwRows[3], "FIPS State Code") = JsNull
    /\ DOMAIN cwMap = {"Fairbanks, AK"}
    /\ cwMap["Fairbanks, AK"] = <<"00000">>

(***************************************************************************)
(* CSV rows and numbers                                                    *)
(*                                                                         *)
(* A Row of fetchCSV (Record<string, string>) is the sequence of its       *)
(* <<column, value>> pairs in header order, the columns distinct.          *)
(***************************************************************************)
\* row[k]: <<value>>, or <<>> for undefined
rowGet(row, k) ==
    LET hits == {i \in 1..Len(row) : row[i][1] = k} IN
    IF hits = {} THEN <<>> ELSE <<row[CHOOSE i \in hits : TRUE][2]>>

abs(i) == IF i < 0 THEN -i ELSE i

RECURSIVE gcd(_, _)
gcd(a, b) == IF b = 0 THEN a ELSE gcd(b, a % b)

NaN == [k |-> "NaN", n |-> 0, d |-> 1]
Null == [k |-> "Null", n |-> 0, d |-> 1]
Inf(sign) == [k |-> "Inf", n |-> sign, d |-> 1]
\* the number n/d, d > 0
Fin(n, d) == LET g == gcd(abs(n), d) IN [k |-> "Fin", n |-> n \div g, d |-> d \div g]

isFinite(v) == v.k = "Fin"
isNaN(v) == v.k = "NaN"

RECURSIVE digitsToNat(_)
digitsToNat(s) ==
    IF s = "" THEN 0
    ELSE digitsToNat(SubSeq(s, 1, Len(s) - 1)) * 10 + (IndexIn(Ch(s, Len(s)), DigitChars) - 1)

RECURSIVE pow10(_)
pow10(e) == IF e = 0 THEN 1 ELSE 10 * pow10(e - 1)

RECURSIVE beforeDot(_)
beforeDot(s) == IF s = "" \/ Head(s) = "." THEN "" ELSE Head(s) \o beforeDot(Tail(s))

RECURSIVE afterDot(_)
afterDot(s) == IF s = "" THEN "" ELSE IF Head(s) = "." THEN Tail(s) ELSE afterDot(Tail(s))

\* Number(s) for a string s: white space trimmed, "" is 0, a signed decimal
\* literal or Infinity, anything else NaN (the inputs hold no exponent and no
\* 0x, 0o or 0b literal)
Number(s) ==
    LET t == trim(s)
        signed == t # "" /\ Head(t) \in {"+", "-"}
        sign == IF t # "" /\ Head(t) = "-" THEN -1 ELSE 1
        body == IF signed THEN Tail(t) ELSE t
        ip == beforeDot(body)
        fp == afterDot(body)
    IN IF t = "" THEN Fin(0, 1)
       ELSE IF body = "Infinity" THEN Inf(sign)
       ELSE IF IsDigits(ip) /\ IsDigits(fp) /\ (ip # "" \/ fp # "")
            THEN Fin(sign * digitsToNat(ip \o fp), pow10(Len(fp)))
       ELSE NaN

(***************************************************************************)
(* Point joiner useMsaPoints (components/SdgChoropleth.tsx)                *)
(***************************************************************************)
\* the rows of the coordinate table (metrosCsvUrl)
MetroRowPool == {
    << <<"metro", "Anchorage, AK Metro Area">>, <<"state_id", "AK">>,
       <<"lat", "61.2">>, <<"lng", "-149.9">> >>,
    << <<"name", "Anchorage, AK Metro">>, <<"lat", "61.5">>, <<"lng", "-150">> >>,
    << <<"metro", "Springfield, IL Metro Area">>, <<"state_id", "IL">>,
       <<"lat", "39.8">>, <<"lng", "-89.6">> >>,
    << <<"metro", "Springfield, MO Metro Area">>, <<"state_id", "MO">>,
       <<"lat", "37.2">>, <<"lng", "-93.3">> >>,
    << <<"metro", "Springfield Metropolitan Area">>, <<"state_id", "IL">>,
       <<"lat", "39.7">>, <<"lng", "-89.7">> >>,
    << <<"metro", "Juneau, AK Metro Area">>, <<"state_id", "AK">>,
       <<"lat", "n/a">>, <<"lng", "-134.4">> >> }

\* the rows of the indicator table (msaCsvUrl)
MsaRowPool == {
    << <<"area_name", "Anchorage, AK">>, <<"sdg", "SDG-01">>, <<"sdg_lq", "1.23">> >>,
    << <<"msa", "Springfield">>, <<"sdg", "1">>, <<"sdg_lq", "2">> >>,
    << <<"area_name", "Springfield, IL">>, <<"sdg", "sdg 2">>, <<"sdg_lq", "abc">> >>,
    << <<"area_name", "Springfield, OH">>, <<"sdg", "SDG-01">>, <<"sdg_lq", "3">> >>,
    << <<"area_name", "'Anchorage, AK'">>, <<"sdg", "overall">>, <<"sdg_lq", "0.5">> >>,
    << <<"area_name", "Juneau, AK">>, <<"sdg", "SDG-01">>, <<"sdg_lq", "4">> >>,
    << <<"area_name", "Springfield, IL">>, <<"sdg", "SDG-02">>, <<"sdg_lq", "5">> >> }

\* the values of the selectedSDG argument
SdgSelections == {"overall", "1", "SDG-02"}

\* row[k] ?? row[k.toLowerCase()] ?? row[k.toUpperCase()]
pickCell(row, k) ==
    IF rowGet(row, k) # <<>> THEN rowGet(row, k)
    ELSE IF rowGet(row, toLowerCase(k)) # <<>> THEN rowGet(row, toLowerCase(k))
    ELSE rowGet(row, toUpperCase(k))

RECURSIVE pick(_, _)
pick(row, candidates) ==
    IF candidates = <<>> THEN ""
    ELSE LET v == pickCell(row, Head(candidates)) IN
         IF v # <<>> /\ trim(v[1]) # "" THEN v[1] ELSE pick(row, Tail(candidates))

\* one iteration of metroRows.forEach: <<norm>>, or <<>> for a skipped row
metroNorm(row) ==
    LET metroName == pick(row, <<"metro", "name", "metro_name", "cbsa_title", "cbsa">>)
        stId == pick(row, <<"state_id", "state", "st", "state_code">>)
        latStr == pick(row, <<"lat", "latitude", "y">>)
        lngStr == pick(row, <<"lng", "lon", "long", "longitude", "x">>)
        cs == normalizeMetroName(metroName, stId)
        lat == Number(latStr)
        lng == Number(lngStr)
    IN IF cs.city = "" \/ isNaN(lat) \/ isNaN(lng) THEN <<>>
       ELSE <<[city |-> cs.city, state |-> cs.state, lat |-> lat, lng |-> lng]>>

\* metroNorm of the rows of the pool, evaluated once
MetroNormMemo == [row \in MetroRowPool |-> metroNorm(row)]
metroNormAt(row) == IF row \in MetroRowPool THEN MetroNormMemo[row] ELSE metroNorm(row)

\* the norms of the indexed rows, in row order
RECURSIVE metroNorms(_)
metroNorms(table) ==
    IF table = <<>> THEN <<>> ELSE metroNormAt(Head(table)) \o metroNorms(Tail(table))

\* mutant of metroByKeyGet: the first row of a key is kept
metroByKeyGetFirst(norms, key) ==
    LET hits == {i \in 1..Len(norms) : norms[i].city \o "|" \o norms[i].state = key} IN
    IF hits = {} THEN <<>> ELSE <<norms[CHOOSE i \in hits : \A j \in hits : i <= j]>>

\* metroByKey.get(key) after every metroByKey.set(key, norm): the last row of a key
metroByKeyGet(norms, key) ==
    LET hits == {i \in 1..Len(norms) : norms[i].city \o "|" \o norms[i].state = key} IN
    IF hits = {} THEN <<>> ELSE <<norms[CHOOSE i \in hits : \A j \in hits : j <= i]>>

\* cityIndex.get(city) ?? []: the rows of a city, in row order
cityIndexGet(norms, city) ==
    LET ofCity(m) == m.city = city IN SelectSeq(norms, ofCity)

\* one iteration of msaRows.forEach: <<norm>>, or <<>> for a skipped row
msaNormOf(row) ==
    LET areaName == pick(row, <<"area_name", "msa", "name", "area", "area_name_2010", "area2010">>)
        sdgRaw == pick(row, <<"sdg", "indicator", "sdg_code">>)
        lqRaw == pick(row, <<"sdg_lq", "value", "score", "lq", "sdg_lq_2010">>)
        cs == normalizeAreaName(areaName)
        lq == Number(lqRaw)
    IN IF cs.city = "" THEN <<>>
       ELSE <<[area_name |-> unquote(areaName), sdg |-> normalizeSdg(sdgRaw),
               sdg_lq |-> IF isFinite(lq) THEN lq ELSE NaN,
               city |-> cs.city, state |-> cs.state]>>

\* msaNormOf of the rows of the pool, evaluated once
MsaNormMemo == [row \in MsaRowPool |-> msaNormOf(row)]
msaNormAt(row) == IF row \in MsaRowPool THEN MsaNormMemo[row] ELSE msaNormOf(row)

RECURSIVE msaNorm(_)
msaNorm(table) ==
    IF table = <<>> THEN <<>> ELSE msaNormAt(Head(table)) \o msaNorm(Tail(table))

\* normalizeSdg of the selections, evaluated once
WantedMemo == [s \in SdgSelections |-> normalizeSdg(s)]
wantedOf(s) == IF s \in SdgSelections THEN WantedMemo[s] ELSE normalizeSdg(s)

\* mutant of filtered: no row is filtered out
filteredAll(norms, selected) == norms

\* wanted === "overall" ? msaNorm : msaNorm.filter((r) => r.sdg === wanted)
filtered(norms, selected) ==
    LET wanted == wantedOf(selected)
        isWanted(r) == r.sdg = wanted
    IN IF wanted = "overall" THEN norms ELSE SelectSeq(norms, isWanted)

\* mutant of findMetro: the first candidate of the city is taken whatever the states
findMetroGuess(r, norms) ==
    LET exact == metroByKeyGet(norms, r.city \o "|" \o r.state)
        cands == cityIndexGet(norms, r.city)
    IN IF exact # <<>> THEN exact
       ELSE IF r.state # "" THEN <<>>
       ELSE IF Len(cands) >= 1 THEN <<cands[1]>>
       ELSE <<>>

\* the match of one filtered row: <<metro>>, or <<>> for undefined
findMetro(r, norms) ==
    LET exact == metroByKeyGet(norms, r.city \o "|" \o r.state)
        cands == cityIndexGet(norms, r.city)
        uniqStates == {cands[i].state : i \in 1..Len(cands)}
    IN IF exact # <<>> THEN exact
       ELSE IF r.state # "" THEN <<>>
       ELSE IF Len(cands) = 1 THEN <<cands[1]>>
       ELSE IF Len(cands) > 1 /\ Cardinality(uniqStates) = 1 THEN <<cands[1]>>
       ELSE <<>>

\* mutant of joinRows: pts.unshift instead of pts.push
RECURSIVE joinRowsUnshift(_, _)
joinRowsUnshift(rs, norms) ==
    IF rs = <<>> THEN <<>>
    ELSE LET r == Head(rs)
             metro == findMetro(r, norms)
             rest == joinRowsUnshift(Tail(rs), norms)
         IN IF metro = <<>> THEN rest
            ELSE IF ~isFinite(r.sdg_lq) THEN rest
            ELSE rest \o <<[area_name |-> r.area_name, sdg |-> r.sdg, sdg_lq |-> r.sdg_lq,
                            lat |-> metro[1].lat, lng |-> metro[1].lng]>>

\* filtered.forEach: the points pushed, in order
RECURSIVE joinRows(_, _)
joinRows(rs, norms) ==
    IF rs = <<>> THEN <<>>
    ELSE LET r == Head(rs)
             metro == findMetro(r, norms)
             rest == joinRows(Tail(rs), norms)
         IN IF metro = <<>> THEN rest
            ELSE IF ~isFinite(r.sdg_lq) THEN rest
            ELSE <<[area_name |-> r.area_name, sdg |-> r.sdg, sdg_lq |-> r.sdg_lq,
                    lat |-> metro[1].lat, lng |-> metro[1].lng]>> \o rest

\* the useMemo of points; msa and metros are <<>> for null, <<table>> otherwise
pointsMemo(msa, metros, selected) ==
    IF msa = <<>> \/ metros = <<>> THEN <<>>
    ELSE joinRows(filtered(msaNorm(msa[1]), selected), metroNorms(metros[1]))

\* most rows of the indicator table and of the coordinate table
MaxMsaRows == 2
MaxMetroRows == 2
MsaTables == SeqsUpTo(MsaRowPool, MaxMsaRows)
MetroTables == SeqsUpTo(MetroRowPool, MaxMetroRows)

InitPt ==
    /\ msaRows = <<>> /\ metroRows = <<>> /\ ptLoading = TRUE
    /\ selectedSDG \in SdgSelections
    /\ points = <<>>
    /\ NzIdle /\ CwIdle /\ MvIdle /\ CsvIdle /\ ChIdle /\ LdIdle

\* both fetchCSV promises resolve: lines 698-702 and 708, then the render
PtLoadResolve ==
    /\ ptLoading
    /\ \E msa \in MsaTables, metros \in MetroTables :
          /\ msaRows' = <<msa>>
          /\ metroRows' = <<metros>>
          /\ points' = pointsMemo(<<msa>>, <<metros>>, selectedSDG)
    /\ ptLoading' = FALSE
    /\ UNCHANGED <<selectedSDG, nzVars, cwVars, mvVars, csvVars, ldVars, chVars>>

\* a fetch throws: lines 703-708, then the render
PtLoadReject ==
    /\ ptLoading
    /\ msaRows' = << <<>> >>
    /\ metroRows' = << <<>> >>
    /\ points' = pointsMemo(<< <<>> >>, << <<>> >>, selectedSDG)
    /\ ptLoading' = FALSE
    /\ UNCHANGED <<selectedSDG, nzVars, cwVars, mvVars, csvVars, ldVars, chVars>>

\* the component renders with another selectedSDG
PtSelectSdg ==
    /\ \E s \in SdgSelections \ {selectedSDG} :
          /\ selectedSDG' = s
          /\ points' = pointsMemo(msaRows, metroRows, s)
    /\ UNCHANGED <<msaRows, metroRows, ptLoading, nzVars, cwVars, mvVars, csvVars, ldVars, chVars>>

NextPt == PtLoadResolve \/ PtLoadReject \/ PtSelectSdg

SpecPt == InitPt /\ [][NextPt]_vars

(***************************************************************************)
(* Claims on the point joiner                                              *)
(***************************************************************************)
PtLoaded == msaRows # <<>> /\ metroRows # <<>>
PtMsaTable == msaRows[1]
PtMetroTable == metroRows[1]
\* the filtered indicator rows and the indexed coordinate rows of the state
PtFiltered == filtered(msaNorm(PtMsaTable), selectedSDG)
PtIndexed == metroNorms(PtMetroTable)

PointKey(p) == <<p.area_name, p.sdg, p.sdg_lq>>
PointsOf(key) == {i \in 1..Len(points) : PointKey(points[i]) = key}

\* "City, ST": a city of letters and spaces, a comma, a space, two letters
IsCityST(a) ==
    /\ Len(a) >= 5
    /\ Ch(a, Len(a) - 3) = "," /\ Ch(a, Len(a) - 2) = " "
    /\ Ch(a, Len(a) - 1) \in UpperSet \cup LowerSet /\ Ch(a, Len(a)) \in UpperSet \cup LowerSet
    /\ Ch(a, 1) \in UpperSet \cup LowerSet
    /\ \A i \in 1..(Len(a) - 4) : Ch(a, i) \in UpperSet \cup LowerSet \cup {" "}

MetroSuffixes == {" Metro Area", " Metro", " Metropolitan Area", " Metropolitan Statistical Area"}

\* what the claims read of a row, evaluated once for the rows of the pools
MsaFacts == [row \in MsaRowPool |->
    LET a == pick(row, <<"area_name", "msa", "name", "area", "area_name_2010", "area2010">>) IN
    [area |-> a, unquoted |-> unquote(a), cityST |-> IsCityST(a),
     sdg |-> normalizeSdg(pick(row, <<"sdg", "indicator", "sdg_code">>)),
     value |-> Number(pick(row, <<"sdg_lq", "value", "score", "lq", "sdg_lq_2010">>))]]
MetroFacts == [row \in MetroRowPool |->
    [name |-> pick(row, <<"metro", "name", "metro_name", "cbsa_title", "cbsa">>),
     lat |-> Number(pick(row, <<"lat", "latitude", "y">>)),
     lng |-> Number(pick(row, <<"lng", "lon", "long", "longitude", "x">>))]]
MsaAreaName(row) == MsaFacts[row].area
MsaSdg(row) == MsaFacts[row].sdg
MsaValue(row) == MsaFacts[row].value
MetroName(row) == MetroFacts[row].name
MetroLat(row) == MetroFacts[row].lat
MetroLng(row) == MetroFacts[row].lng

\* indicator row i is a "City, ST" row with a finite value that passes the filter
C1_Row(i) ==
    /\ MsaFacts[PtMsaTable[i]].cityST
    /\ isFinite(MsaValue(PtMsaTable[i]))
    /\ wantedOf(selectedSDG) \in {"overall", MsaSdg(PtMsaTable[i])}

\* coordinate row j is named as indicator row i with a metro suffix, lat and lng parse
C1_Coord(i, j) ==
    /\ \E sfx \in MetroSuffixes : MetroName(PtMetroTable[j]) = MsaAreaName(PtMsaTable[i]) \o sfx
    /\ isFinite(MetroLat(PtMetroTable[j])) /\ isFinite(MetroLng(PtMetroTable[j]))

C1_Key(i) == <<MsaAreaName(PtMsaTable[i]), MsaSdg(PtMsaTable[i]), MsaValue(PtMsaTable[i])>>

\* one point for each indicator row with the area name, sdg and value of row i
C1_OnePointPerRow(i) ==
    Cardinality(PointsOf(C1_Key(i)))
        = Cardinality({k \in 1..Len(PtMsaTable) :
              <<MsaFacts[PtMsaTable[k]].unquoted, MsaSdg(PtMsaTable[k]), MsaValue(PtMsaTable[k])>>
                  = C1_Key(i)})

\* C1 as stated: the point of a "City, ST" row carries the lat and lng of the
\* coordinate row named "City, ST" plus a metro suffix.
C1_PointOfNamedCoordinate ==
    PtLoaded =>
        \A i \in 1..Len(PtMsaTable) : \A j \in 1..Len(PtMetroTable) :
            (C1_Row(i) /\ C1_Coord(i, j)) =>
                /\ C1_OnePointPerRow(i)
                /\ \A p \in PointsOf(C1_Key(i)) :
                      /\ points[p].lat = MetroLat(PtMetroTable[j])
                      /\ points[p].lng = MetroLng(PtMetroTable[j])

\* the last coordinate row of the table that is indexed under the key of row j
SameKey(l, j) ==
    /\ metroNormAt(PtMetroTable[l]) # <<>>
    /\ metroNormAt(PtMetroTable[l])[1].city = metroNormAt(PtMetroTable[j])[1].city
    /\ metroNormAt(PtMetroTable[l])[1].state = metroNormAt(PtMetroTable[j])[1].state
LastOfSameKey(j) ==
    CHOOSE l \in 1..Len(PtMetroTable) :
        SameKey(l, j) /\ \A m \in (l + 1)..Len(PtMetroTable) : ~SameKey(m, j)

\* C1 (amended): a "City, ST" indicator row with a finite value, joined against
\* a table with a coordinate row named "City, ST" plus a metro suffix with
\* parsable lat/lng, yields exactly one point, with the unquoted area name, the
\* normalized sdg, the value, and the lat and lng of the last indexed coordinate
\* row that normalizes to the same "city|state" key (that row itself when no
\* later row shares its key).
C1_PointOfLastCoordinate ==
    PtLoaded =>
        \A i \in 1..Len(PtMsaTable) : \A j \in 1..Len(PtMetroTable) :
            (C1_Row(i) /\ C1_Coord(i, j)) =>
                /\ C1_OnePointPerRow(i)
                /\ \A p \in PointsOf(C1_Key(i)) :
                      /\ points[p].lat = MetroLat(PtMetroTable[LastOfSameKey(j)])
                      /\ points[p].lng = MetroLng(PtMetroTable[LastOfSameKey(j)])

C1_Witness ==
    /\ PtLoaded
    /\ PtMsaTable = << << <<"area_name", "Anchorage, AK">>, <<"sdg", "SDG-01">>, <<"sdg_lq", "1.23">> >> >>
    /\ Len(PtMetroTable) = 2
    /\ MetroName(PtMetroTable[1]) = "Anchorage, AK Metro Area"
    /\ MetroName(PtMetroTable[2]) = "Anchorage, AK Metro"
    /\ points = <<[area_name |-> "Anchorage, AK", sdg |-> "SDG-01", sdg_lq |-> Fin(123, 100),
                   lat |-> Fin(615, 10), lng |-> Fin(-150, 1)]>>

\* the indexed coordinate rows of the city of r, and whether r has an exact match
CandidatesOf(r) == {i \in 1..Len(PtIndexed) : PtIndexed[i].city = r.city}
HasExact(r) == \E i \in CandidatesOf(r) : PtIndexed[i].state = r.state
OneState(r) ==
    /\ CandidatesOf(r) # {}
    /\ \A i \in CandidatesOf(r) : \A j \in CandidatesOf(r) : PtIndexed[i].state = PtIndexed[j].state
FirstCandidate(r) == PtIndexed[CHOOSE i \in CandidatesOf(r) : \A j \in CandidatesOf(r) : i <= j]

\* C2: a filtered row with no exact "city|state" match gets a point through the
\* city-only index if and only if its state is empty and the candidates of its
\* city are one, or several of one state; the point is the first candidate's.
C2_CityOnlyFallback ==
    PtLoaded =>
        \A i \in 1..Len(PtFiltered) :
            LET r == PtFiltered[i] IN
            (~HasExact(r) /\ isFinite(r.sdg_lq)) =>
                /\ (PointsOf(PointKey(r)) # {}) <=> (r.state = "" /\ OneState(r))
                /\ \A p \in PointsOf(PointKey(r)) :
                      /\ points[p].lat = FirstCandidate(r).lat
                      /\ points[p].lng = FirstCandidate(r).lng

C2_Witness ==
    /\ PtLoaded
    /\ Len(PtMetroTable) = 2
    /\ MetroName(PtMetroTable[1]) = "Springfield, IL Metro Area"
    /\ MetroName(PtMetroTable[2]) = "Springfield Metropolitan Area"
    /\ Len(PtMsaTable) = 1
    /\ MsaAreaName(PtMsaTable[1]) = "Springfield"
    /\ points = <<[area_name |-> "Springfield", sdg |-> "SDG-01", sdg_lq |-> Fin(2, 1),
                   lat |-> Fin(398, 10), lng |-> Fin(-896, 10)]>>

RECURSIVE IsSubsequence(_, _)
IsSubsequence(a, b) ==
    IF a = <<>> THEN TRUE
    ELSE IF b = <<>> THEN FALSE
    ELSE IF Head(a) = Head(b) THEN IsSubsequence(Tail(a), Tail(b))
    ELSE IsSubsequence(a, Tail(b))

\* a filtered row that is matched (exactly or through the city-only index) and
\* whose value is finite
Joins(r) == (HasExact(r) \/ (r.state = "" /\ OneState(r))) /\ isFinite(r.sdg_lq)

\* C3: every filtered row contributes at most one point, an unmatched or
\* unparsable row none, and the points are in the order of their rows.
C3_StableJoin ==
    PtLoaded =>
        /\ Len(points) = Cardinality({i \in 1..Len(PtFiltered) : Joins(PtFiltered[i])})
        /\ IsSubsequence([i \in 1..Len(points) |-> PointKey(points[i])],
                         [i \in 1..Len(PtFiltered) |-> PointKey(PtFiltered[i])])
        /\ \A i \in 1..Len(PtFiltered) :
              ~Joins(PtFiltered[i]) => PointsOf(PointKey(PtFiltered[i])) = {}

C3_Witness ==
    /\ PtLoaded
    /\ Len(PtMsaTable) = 2
    /\ MsaAreaName(PtMsaTable[1]) = "Springfield"
    /\ MsaAreaName(PtMsaTable[2]) = "Anchorage, AK"
    /\ Len(PtFiltered) = 2
    /\ Len(points) = 2
    /\ points[1].area_name = "Springfield" /\ points[2].area_name = "Anchorage, AK"

\* the normalized indicator rows, and those of the requested category
PtNormalized == msaNorm(PtMsaTable)
KeptByCategory(r) ==
    normalizeSdg(selectedSDG) = "overall" \/ r.sdg = normalizeSdg(selectedSDG)

\* C27: when the requested category is "overall" every normalized indicator
\* row is kept; otherwise exactly the rows whose normalized category equals
\* the normalized requested category are kept: the points are those of the
\* kept rows that join, in order, and no point carries another sdg than the
\* requested one.
C27_CategoryFilter ==
    PtLoaded =>
        LET kept == SelectSeq(PtNormalized, KeptByCategory)
            joined == SelectSeq(kept, Joins)
        IN /\ [i \in 1..Len(points) |-> PointKey(points[i])]
                  = [i \in 1..Len(joined) |-> PointKey(joined[i])]
           /\ normalizeSdg(selectedSDG) = "overall" =>
                  Len(points) = Len(SelectSeq(PtNormalized, Joins))
           /\ normalizeSdg(selectedSDG) # "overall" =>
                  \A p \in 1..Len(points) : points[p].sdg = normalizeSdg(selectedSDG)

C27_Witness ==
    /\ PtLoaded
    /\ selectedSDG = "1"
    /\ Len(PtMsaTable) = 2
    /\ MsaAreaName(PtMsaTable[1]) = "'Anchorage, AK'" /\ MsaSdg(PtMsaTable[1]) = "overall"
    /\ MsaAreaName(PtMsaTable[2]) = "Anchorage, AK" /\ MsaSdg(PtMsaTable[2]) = "SDG-01"
    /\ Len(points) = 1
    /\ points[1].sdg = "SDG-01" /\ points[1].sdg_lq = Fin(123, 100)

\* C28: the coordinates of a place do not depend on the join path: when the
\* coordinate rows of a city are all of one state, the point of an indicator
\* row naming the city with that state (exact match) and the point of an
\* indicator row naming the city without a state (city-only fallback) carry
\* the same lat and lng.
C28_SameCoordinatesOnBothPaths ==
    PtLoaded =>
        \A i, j \in 1..Len(PtFiltered) :
            LET exact == PtFiltered[i]
                cityOnly == PtFiltered[j]
            IN (/\ exact.city = cityOnly.city
                /\ exact.state # "" /\ HasExact(exact)
                /\ cityOnly.state = "" /\ ~HasExact(cityOnly) /\ OneState(cityOnly))
               => \A p \in PointsOf(PointKey(exact)), q \in PointsOf(PointKey(cityOnly)) :
                      points[p].lat = points[q].lat /\ points[p].lng = points[q].lng

(***************************************************************************)
(* Value aggregator useMsaValues (hooks/useMsaValues.ts)                   *)
(***************************************************************************)
canonAreaName(s) == canon(unquote(s))

\* Object.keys(row).find((kk) => kk.toLowerCase() === k.toLowerCase()):
\* <<key>>, or <<>> for undefined
findKeyIgnoringCase(row, k) ==
    LET hits == {i \in 1..Len(row) : toLowerCase(row[i][1]) = toLowerCase(k)} IN
    IF hits = {} THEN <<>> ELSE <<row[CHOOSE i \in hits : \A j \in hits : i <= j][1]>>

\* pick of useMsaValues.ts
RECURSIVE pickMv(_, _)
pickMv(row, keys) ==
    IF keys = <<>> THEN ""
    ELSE LET k == Head(keys)
             lower == findKeyIgnoringCase(row, k)
         IN IF rowGet(row, k) # <<>> THEN rowGet(row, k)[1]
            ELSE IF lower # <<>> /\ lower[1] # "" THEN rowGet(row, lower[1])[1]
            ELSE pickMv(row, Tail(keys))

\* the rows of the indicator table of a year (eung_msa_<year>.csv)
MvRowPool == {
    << <<"area_name", "Anchorage, AK">>, <<"sdg", "SDG-01">>, <<"sdg_lq", "10">> >>,
    << <<"area_name", "Anchorage, AK">>, <<"sdg", "SDG-02">>, <<"sdg_lq", "20">>,
       <<"CBSA", "11260">> >>,
    << <<"area_name", "anchorage,  AK">>, <<"sdg", "overall">>, <<"sdg_lq", "30">> >>,
    << <<"Area_Name", "Fairbanks, AK">>, <<"SDG", "1">>, <<"sdg_lq", "2.5">>,
       <<"geoid", "21820">> >>,
    << <<"area_name", "">>, <<"sdg", "SDG-01">>, <<"sdg_lq", "7">> >>,
    << <<"area_name", "Fairbanks, AK">>, <<"sdg", "SDG-02">>, <<"sdg_lq", "n/a">>,
       <<"CBSA", "">> >>,
    << <<"area_name", "Juneau, AK">>, <<"sdg", "SDG-01">>, <<"sdg_lq", "">> >> }

\* the fields useMsaValues reads of a row
rowFields(row) ==
    [area |-> canonAreaName(pickMv(row, <<"area_name", "area", "msa", "name">>)),
     sdg |-> normalizeSdg(pickMv(row, <<"sdg", "indicator">>)),
     value |-> Number(pickMv(row, <<"sdg_lq", "value", "score", "lq">>)),
     cbsa |-> trim(pickMv(row, <<"CBSA", "GEOID">>))]

\* rowFields of the rows of the pool, evaluated once
RowFieldsMemo == [row \in MvRowPool |-> rowFields(row)]
rowFieldsAt(row) == RowFieldsMemo[row]

\* the fields of every row of the table, in row order
readRows(table) == [i \in 1..Len(table) |-> rowFieldsAt(table[i])]

\* the keys of groupByArea in insertion order; recs are the fields of the rows
RECURSIVE areaKeys(_)
areaKeys(recs) ==
    IF recs = <<>> THEN <<>>
    ELSE LET init == areaKeys(SubSeq(recs, 1, Len(recs) - 1)) IN
         IF recs[Len(recs)].area = "" \/ \E i \in 1..Len(init) : init[i] = recs[Len(recs)].area
         THEN init
         ELSE Append(init, recs[Len(recs)].area)

\* groupByArea.get(area): the rows of the area, in row order
groupRecs(recs, area) ==
    LET ofArea(r) == r.area = area IN SelectSeq(recs, ofArea)

\* nums.reduce((a, b) => a + b, 0) over finite numbers
RECURSIVE sumNums(_)
sumNums(nums) ==
    IF nums = <<>> THEN Fin(0, 1)
    ELSE LET init == sumNums(SubSeq(nums, 1, Len(nums) - 1))
             last == nums[Len(nums)]
         IN Fin(init.n * last.d + last.n * init.d, init.d * last.d)

\* recs.map((r) => Number(pick(r, [...]))).filter((v) => Number.isFinite(v))
finiteValues(recs) ==
    LET fin(v) == isFinite(v) IN SelectSeq([i \in 1..Len(recs) |-> recs[i].value], fin)

\* nums.length ? sum / nums.length : null
meanOrNull(nums) ==
    IF nums = <<>> THEN Null
    ELSE Fin(sumNums(nums).n, sumNums(nums).d * Len(nums))

\* mutant of recsForWanted: for "overall" all the rows of the group
recsForWantedAllOverall(recs, wanted) ==
    LET isWanted(r) == r.sdg = wanted IN
    IF wanted = "overall" THEN recs ELSE SelectSeq(recs, isWanted)

\* mutant of recsForWanted: no fallback to all rows for "overall"
recsForWantedNoFallback(recs, wanted) ==
    LET isWanted(r) == r.sdg = wanted IN SelectSeq(recs, isWanted)

\* the rows whose values are averaged: recsForWanted, or on the "overall"
\* fallback path (lines 143-155) all the rows of the group
recsForWanted(recs, wanted) ==
    LET isWanted(r) == r.sdg = wanted IN
    IF wanted = "overall" /\ SelectSeq(recs, isWanted) = <<>> THEN recs
    ELSE SelectSeq(recs, isWanted)

\* the row the code is read from: recsForWanted[0], or recs[0] on the
\* "overall" fallback path (line 152)
codeRow(recs, wanted) ==
    LET isWanted(r) == r.sdg = wanted IN
    IF SelectSeq(recs, isWanted) # <<>> THEN SelectSeq(recs, isWanted)[1] ELSE recs[1]

\* the value of one group: [val, cbsa]
groupValue(recs, wanted) ==
    [val |-> meanOrNull(finiteValues(recsForWanted(recs, wanted))),
     cbsa |-> codeRow(recs, wanted).cbsa]

\* the values of the groups, in the order of the keys
groupValues(recs, keys, wanted) ==
    [i \in 1..Len(keys) |-> groupValue(groupRecs(recs, keys[i]), wanted)]

\* mutant of codeKeys: byCbsa.set without the test of cbsa
codeKeysUnchecked(vals) == {vals[i].cbsa : i \in 1..Len(vals)}

\* the keys of byCbsa: if (cbsa) byCbsa.set(cbsa, val)
codeKeys(vals) == {vals[i].cbsa : i \in 1..Len(vals)} \ {""}

\* byName and byCbsa of the groups keys with the values vals: Map.set, a later
\* group replacing an earlier one of the same code
buildMaps(keys, vals) ==
    [byName |-> [a \in {keys[i] : i \in 1..Len(keys)} |->
                    vals[CHOOSE i \in 1..Len(keys) : keys[i] = a].val],
     byCbsa |-> [c \in codeKeys(vals) |->
                    vals[CHOOSE i \in 1..Len(vals) :
                            /\ vals[i].cbsa = c
                            /\ \A j \in (i + 1)..Len(vals) : vals[j].cbsa # c].val]]

\* the loop over the groups of the rows with the fields recs
aggregate(recs, keys, wanted) == buildMaps(keys, groupValues(recs, keys, wanted))

\* the useMemo of the value maps
valueMaps(table, wanted) ==
    IF table = <<>> THEN [byName |-> <<>>, byCbsa |-> <<>>]
    ELSE aggregate(readRows(table), areaKeys(readRows(table)), wanted)

\* the values of the sdgInput argument
SdgInputValues == {"overall", "1", "SDG-02"}

\* most rows of the indicator table
MaxMvRows == 3
MvTables == SeqsUpTo(MvRowPool, MaxMvRows)

InitMv ==
    /\ rows = <<>> /\ mvLoading = TRUE
    /\ sdgInput \in SdgInputValues
    /\ valueByName = <<>> /\ valueByCbsa = <<>>
    /\ NzIdle /\ CwIdle /\ PtIdle /\ CsvIdle /\ ChIdle /\ LdIdle

\* fetchCSV resolves: lines 98-99 and 106, then the render
MvLoadResolve ==
    /\ mvLoading
    /\ \E data \in MvTables :
          /\ rows' = data
          /\ valueByName' = valueMaps(data, normalizeSdg(sdgInput)).byName
          /\ valueByCbsa' = valueMaps(data, normalizeSdg(sdgInput)).byCbsa
    /\ mvLoading' = FALSE
    /\ UNCHANGED <<sdgInput, nzVars, cwVars, ptVars, csvVars, ldVars, chVars>>

\* the hook is called with another sdgInput
MvSelectSdg ==
    /\ \E s \in SdgInputValues \ {sdgInput} :
          /\ sdgInput' = s
          /\ valueByName' = valueMaps(rows, normalizeSdg(s)).byName
          /\ valueByCbsa' = valueMaps(rows, normalizeSdg(s)).byCbsa
    /\ UNCHANGED <<rows, mvLoading, nzVars, cwVars, ptVars, csvVars, ldVars, chVars>>

NextMv == MvLoadResolve \/ MvSelectSdg

SpecMv == InitMv /\ [][NextMv]_vars

(***************************************************************************)
(* Claims on the aggregator                                                *)
(***************************************************************************)
\* the rows of the state whose canonical area name is a
RowsOfArea(a) == {i \in 1..Len(rows) : rowFieldsAt(rows[i]).area = a}
FiniteRowsOfArea(a) == {i \in RowsOfArea(a) : isFinite(rowFieldsAt(rows[i]).value)}

\* the sum of the values of the rows S, over the denominator 100
RECURSIVE SumHundredths(_)
SumHundredths(S) ==
    IF S = {} THEN 0
    ELSE LET i == CHOOSE x \in S : TRUE
             v == rowFieldsAt(rows[i]).value
         IN (v.n * 100) \div v.d + SumHundredths(S \ {i})

\* v is the arithmetic mean of the finite values of the rows S
IsMeanOf(v, S) ==
    /\ S # {}
    /\ v.k = "Fin"
    /\ v.n * 100 * Cardinality(S) = SumHundredths(S) * v.d

\* C4: requested "overall", a group with no "overall" row: the stored value is
\* the arithmetic mean of the finite values of all the rows of the group.
C4_OverallFallbackMean ==
    (~mvLoading /\ normalizeSdg(sdgInput) = "overall") =>
        \A a \in {rowFieldsAt(rows[i]).area : i \in 1..Len(rows)} \ {""} :
            (\A i \in RowsOfArea(a) : rowFieldsAt(rows[i]).sdg # "overall") =>
                /\ a \in DOMAIN valueByName
                /\ FiniteRowsOfArea(a) # {} => IsMeanOf(valueByName[a], FiniteRowsOfArea(a))
                /\ FiniteRowsOfArea(a) = {} => valueByName[a] = Null

C4_Witness ==
    /\ ~mvLoading /\ sdgInput = "overall"
    /\ rows = << << <<"area_name", "Anchorage, AK">>, <<"sdg", "SDG-01">>, <<"sdg_lq", "10">> >>,
                 << <<"area_name", "Anchorage, AK">>, <<"sdg", "SDG-02">>, <<"sdg_lq", "20">>,
                    <<"CBSA", "11260">> >> >>
    /\ valueByName = [a \in {"anchorage, ak"} |-> Fin(15, 1)]

\* C5: the name-keyed map has exactly one entry per distinct canonical area
\* name, and the code-keyed map has an entry only for groups in which a
\* geographic code is present.
C5_OneEntryPerGroup ==
    (~mvLoading /\ rows # <<>>) =>
        /\ DOMAIN valueByName = {rowFieldsAt(rows[i]).area : i \in 1..Len(rows)} \ {""}
        /\ \A c \in DOMAIN valueByCbsa :
              \E i \in 1..Len(rows) :
                  /\ rowFieldsAt(rows[i]).area # ""
                  /\ rowFieldsAt(rows[i]).cbsa = c
                  /\ c # ""

C5_Witness ==
    /\ ~mvLoading /\ Len(rows) = 3
    /\ DOMAIN valueByName = {"anchorage, ak", "fairbanks, ak"}
    /\ DOMAIN valueByCbsa = {"21820"}

(***************************************************************************)
(* CSV parser (utils/csv.ts)                                               *)
(***************************************************************************)
\* parseCsvLine from position i, with the locals cur, inQuotes and result
RECURSIVE parseCsvFrom(_, _, _, _, _)
parseCsvFrom(line, i, cur, inQuotes, result) ==
    IF i > Len(line) THEN Append(result, cur)
    ELSE IF inQuotes THEN
        IF Ch(line, i) = "\"" THEN
            IF i + 1 <= Len(line) /\ Ch(line, i + 1) = "\""
            THEN parseCsvFrom(line, i + 2, cur \o "\"", TRUE, result)
            ELSE parseCsvFrom(line, i + 1, cur, FALSE, result)
        ELSE parseCsvFrom(line, i + 1, cur \o Ch(line, i), TRUE, result)
    ELSE IF Ch(line, i) = "\"" THEN parseCsvFrom(line, i + 1, cur, TRUE, result)
    ELSE IF Ch(line, i) = "," THEN parseCsvFrom(line, i + 1, "", FALSE, Append(result, cur))
    ELSE parseCsvFrom(line, i + 1, cur \o Ch(line, i), FALSE, result)

\* mutant of parseCsvLine: a quote inside a quoted section always closes it
RECURSIVE parseCsvNoEscape(_, _, _, _, _)
parseCsvNoEscape(line, i, cur, inQuotes, result) ==
    IF i > Len(line) THEN Append(result, cur)
    ELSE IF Ch(line, i) = "\"" THEN parseCsvNoEscape(line, i + 1, cur, ~inQuotes, result)
    ELSE IF Ch(line, i) = "," /\ ~inQuotes
         THEN parseCsvNoEscape(line, i + 1, "", FALSE, Append(result, cur))
    ELSE parseCsvNoEscape(line, i + 1, cur \o Ch(line, i), inQuotes, result)

parseCsvLineNoEscape(line) == parseCsvNoEscape(line, 1, "", FALSE, <<>>)

parseCsvLine(line) == parseCsvFrom(line, 1, "", FALSE, <<>>)

\* text.replace(/\r\n/g, "\n")
RECURSIVE replaceCrLf(_)
replaceCrLf(text) ==
    IF text = "" THEN ""
    ELSE IF Len(text) >= 2 /\ SubSeq(text, 1, 2) = "\r\n" THEN "\n" \o replaceCrLf(SubSeq(text, 3, Len(text)))
    ELSE Head(text) \o replaceCrLf(Tail(text))

\* s.split("\n"): never empty, "" gives <<"">>
RECURSIVE splitNewline(_, _)
splitNewline(s, cur) ==
    IF s = "" THEN <<cur>>
    ELSE IF Head(s) = "\n" THEN <<cur>> \o splitNewline(Tail(s), "")
    ELSE splitNewline(Tail(s), cur \o Head(s))

\* the lines of fetchCSV
csvLines(text) == splitNewline(replaceCrLf(text), "")

\* an integer index key of an object (canonical decimal below 2^32 - 1; the
\* keys of the inputs have at most 9 digits): these keys are enumerated
\* first, ascending
isIndexKey(k) ==
    /\ k # "" /\ IsDigits(k)
    /\ (k = "0" \/ Head(k) # "0")
    /\ Len(k) <= 9

\* row[h] = v on the pairs of the row: a new key is added after the others,
\* an existing key keeps its place
setKey(row, h, v) ==
    IF \E i \in 1..Len(row) : row[i][1] = h
    THEN [i \in 1..Len(row) |-> IF row[i][1] = h THEN <<h, v>> ELSE row[i]]
    ELSE Append(row, <<h, v>>)

\* insertion of an index key in ascending numeric order
RECURSIVE insertIndexKey(_, _)
insertIndexKey(pairs, p) ==
    IF pairs = <<>> THEN <<p>>
    ELSE IF digitsToNat(p[1]) < digitsToNat(Head(pairs)[1]) THEN <<p>> \o pairs
    ELSE <<Head(pairs)>> \o insertIndexKey(Tail(pairs), p)

RECURSIVE sortIndexKeys(_)
sortIndexKeys(pairs) ==
    IF pairs = <<>> THEN <<>>
    ELSE insertIndexKey(sortIndexKeys(Tail(pairs)), Head(pairs))

\* the own keys of the object in enumeration order, with their values
ownPairs(row) ==
    LET isIdx(p) == isIndexKey(p[1])
        notIdx(p) == ~isIndexKey(p[1])
    IN sortIndexKeys(SelectSeq(row, isIdx)) \o SelectSeq(row, notIdx)

\* headers.forEach((h, idx) => { row[h] = (fields[idx] ?? "").trim(); })
RECURSIVE assignFields(_, _, _)
assignFields(headers, fields, n) ==
    IF n = 0 THEN <<>>
    ELSE setKey(assignFields(headers, fields, n - 1), headers[n],
                IF n <= Len(fields) THEN trim(fields[n]) ELSE "")

csvRow(headers, fields) == ownPairs(assignFields(headers, fields, Len(headers)))

\* mutant of skipLine: no line is skipped
skipNoLine(line) == FALSE

\* if (!line.trim()) continue;
skipLine(line) == trim(line) = ""

\* the loop over lines[1..]
RECURSIVE csvRowsFrom(_, _, _)
csvRowsFrom(lines, headers, i) ==
    IF i > Len(lines) THEN <<>>
    ELSE IF skipLine(lines[i]) THEN csvRowsFrom(lines, headers, i + 1)
    ELSE <<csvRow(headers, parseCsvLine(lines[i]))>> \o csvRowsFrom(lines, headers, i + 1)

\* the rows fetchCSV returns for the text of the response
parseCsvText(lines) ==
    IF Len(lines) = 0 THEN <<>>
    ELSE csvRowsFrom(lines, parseCsvLine(lines[1]), 2)

fetchCSVRows(text) == parseCsvText(csvLines(text))

\* the lines of the texts: headers, data lines, blank lines
CsvLinePool == {"a,b", "a,a", " x , y ", "\"a,b\",c", "\"a\"\"b\",c", "", " \t", "1", "p,q,r"}

\* most lines of a text, most characters of a free line
MaxCsvLines == 3
MaxCsvLineLen == 4
CsvLineAlphabet == {"a", ",", "\"", " "}

RECURSIVE joinLines(_, _)
joinLines(lines, eol) ==
    IF lines = <<>> THEN ""
    ELSE IF Len(lines) = 1 THEN lines[1]
    ELSE lines[1] \o eol \o joinLines(Tail(lines), eol)

\* the texts of the responses: lines of the pool ended by \n or by \r\n
CsvTexts ==
    {joinLines(ls, eol) : ls \in SeqsUpTo(CsvLinePool, MaxCsvLines), eol \in {"\n", "\r\n"}}

\* the arguments of parseCsvLine
CsvLineInputs == CsvLinePool \cup StringsUpTo(CsvLineAlphabet, MaxCsvLineLen)

InitCsv == CsvIdle /\ ChIdle /\ NzIdle /\ CwIdle /\ PtIdle /\ MvIdle /\ LdIdle

CallParseCsvLine ==
    /\ csvFn = "idle"
    /\ \E line \in CsvLineInputs :
          /\ csvIn' = line
          /\ csvOut' = parseCsvLine(line)
    /\ csvFn' = "parseCsvLine"
    /\ csvPhase' = "returned"
    /\ UNCHANGED <<nzVars, cwVars, ptVars, mvVars, ldVars, chVars>>

\* fetchCSV is called: line 3, the fetch is under way
CallFetchCSV ==
    /\ csvFn = "idle"
    /\ csvFn' = "fetchCSV"
    /\ csvPhase' = "pending"
    /\ UNCHANGED <<csvIn, csvOut, nzVars, cwVars, ptVars, mvVars, ldVars, chVars>>

\* fetch and res.text() resolve: lines 6-21
CsvFetchResolve ==
    /\ csvFn = "fetchCSV" /\ csvPhase = "pending"
    /\ \E text \in CsvTexts :
          /\ csvIn' = text
          /\ csvOut' = fetchCSVRows(text)
    /\ csvPhase' = "resolved"
    /\ UNCHANGED <<csvFn, nzVars, cwVars, ptVars, mvVars, ldVars, chVars>>

\* fetch or res.text() rejects: the promise of fetchCSV rejects
CsvFetchReject ==
    /\ csvFn = "fetchCSV" /\ csvPhase = "pending"
    /\ csvPhase' = "rejected"
    /\ UNCHANGED <<csvFn, csvIn, csvOut, nzVars, cwVars, ptVars, mvVars, ldVars, chVars>>

NextCsv == CallParseCsvLine \/ CallFetchCSV \/ CsvFetchResolve \/ CsvFetchReject

SpecCsv == InitCsv /\ [][NextCsv]_vars

(***************************************************************************)
(* Claims on the CSV parser                                                *)
(***************************************************************************)
\* the number of double quotes before position i of the line
QuotesBefore(line, i) == Cardinality({j \in 1..(i - 1) : Ch(line, j) = "\""})

\* the commas of the line outside every quoted section
SeparatorsOf(line) ==
    {i \in 1..Len(line) : Ch(line, i) = "," /\ QuotesBefore(line, i) % 2 = 0}

\* the characters of the line that are neither quotes nor separators, in order
RECURSIVE PlainText(_, _)
PlainText(line, i) ==
    IF i > Len(line) THEN ""
    ELSE (IF Ch(line, i) = "\"" \/ i \in SeparatorsOf(line) THEN "" ELSE Ch(line, i))
         \o PlainText(line, i + 1)

RECURSIVE WithoutQuotes(_)
WithoutQuotes(s) ==
    IF s = "" THEN ""
    ELSE (IF Head(s) = "\"" THEN "" ELSE Head(s)) \o WithoutQuotes(Tail(s))

RECURSIVE Concat(_)
Concat(fields) == IF fields = <<>> THEN "" ELSE Head(fields) \o Concat(Tail(fields))

\* C11: a comma inside a double-quoted section does not end the field, the
\* enclosing quotes are not part of the field, and a doubled quote inside a
\* quoted section yields one literal quote: "a,b",c gives [a,b | c] and
\* "a""b",c gives [a"b | c].
C11_QuotedFields ==
    csvFn = "parseCsvLine" =>
        /\ Len(csvOut) = Cardinality(SeparatorsOf(csvIn)) + 1
        /\ WithoutQuotes(Concat(csvOut)) = PlainText(csvIn, 1)
        /\ csvIn = "\"a,b\",c" => csvOut = <<"a,b", "c">>
        /\ csvIn = "\"a\"\"b\",c" => csvOut = <<"a\"b", "c">>
        /\ csvIn = "\"a\"\"" => csvOut = <<"a\"">>

C11_Witness ==
    /\ csvFn = "parseCsvLine"
    /\ csvIn = "\"a\"\"b\",c"
    /\ csvOut = <<"a\"b", "c">>

\* the response of a resolved fetchCSV: its lines, its header fields, and its
\* data lines (the lines after the first that have a non-blank character)
CsvResolved == csvFn = "fetchCSV" /\ csvPhase = "resolved"
NonBlank(line) == \E i \in 1..Len(line) : Ch(line, i) \notin WhiteSpace
TextLines == csvLines(csvIn)
HeaderFields == parseCsvLine(TextLines[1])
DataLines == SelectSeq(Tail(TextLines), NonBlank)
FieldAt(line, idx) ==
    IF idx <= Len(parseCsvLine(line)) THEN trim(parseCsvLine(line)[idx]) ELSE ""

\* C12: every returned row has exactly H keys, the field names of the header
\* of H columns, each value being the trimmed field at the same position of
\* its line, a missing trailing field being the empty string.
C12_RowKeysAreHeaders ==
    (CsvResolved /\ Len(csvOut) = Len(DataLines)) =>
        \A i \in 1..Len(csvOut) :
            /\ Len(csvOut[i]) = Len(HeaderFields)
            /\ \A idx \in 1..Len(HeaderFields) :
                  rowGet(csvOut[i], HeaderFields[idx]) = <<FieldAt(DataLines[i], idx)>>

\* C13: fetchCSV returns exactly one row per non-blank line after the header
\* line, in input order, \r\n being read as \n; blank lines give no row and
\* the empty text gives the empty sequence.
C13_OneRowPerDataLine ==
    CsvResolved =>
        /\ Len(TextLines) = Cardinality({i \in 1..Len(replaceCrLf(csvIn)) :
                                            Ch(replaceCrLf(csvIn), i) = "\n"}) + 1
        /\ Len(csvOut) = Len(DataLines)
        /\ \A i \in 1..Len(csvOut) :
              csvOut[i] = csvRow(HeaderFields, parseCsvLine(DataLines[i]))
        /\ csvIn = "" => csvOut = <<>>

C13_Witness ==
    /\ CsvResolved
    /\ csvIn = "a,b\r\n \t\r\n x , y "
    /\ csvOut = << << <<"a", "x">>, <<"b", "y">> >> >>

\* C25: when the header line is blank, every returned row has no fields
\* (zero keys), whatever the data lines hold.
C25_BlankHeaderNoFields ==
    (CsvResolved /\ ~NonBlank(TextLines[1])) =>
        \A i \in 1..Len(csvOut) : csvOut[i] = <<>>

(***************************************************************************)
(* Load effects of the hooks (useMsaValues, useMsaPoints,                  *)
(* useCbsaCentroids).  A step is one task of the event loop: the run of an *)
(* effect, or the continuation of an async function after an await, with   *)
(* the render that its state updates cause.                                *)
(***************************************************************************)
\* the years of the year argument; ALL_CSV has a file for the first two
LdYears == {2000, 2001, 2099}
AllCsvYears == {2000, 2001}

\* urlForYear: <<url>>, or <<>> for null
urlForYear(y) ==
    IF y \in AllCsvYears THEN <<"eung_msa_" \o natToString(y) \o ".csv">> ELSE <<>>

\* the rows fetchCSV returns for the file of a year
LdYearRows ==
    [y \in AllCsvYears |->
        IF y = 2000
        THEN << << <<"area_name", "Anchorage, AK">>, <<"sdg", "SDG-01">>, <<"sdg_lq", "10">> >> >>
        ELSE << << <<"Area_Name", "Fairbanks, AK">>, <<"SDG", "1">>, <<"sdg_lq", "2.5">>,
                   <<"geoid", "21820">> >> >>]

\* most runs of the load effect of useMsaValues
MaxLoads == 3

\* the messages of the errors thrown in the loads
FetchErrorMessage == "Failed to fetch"
notFoundMessage(y) == "CSV not found for year " \o natToString(y)

\* a run of the load effect: its year, its cancelled flag, the position of its
\* async function (url: at await urlForYear, fetch: at await fetchCSV,
\* resolved / caught: returned through try / through catch), and the rank of
\* its return among the runs (0 while in flight)
loadRun(y) == [year |-> y, cancelled |-> FALSE, pc |-> "url", order |-> 0]

\* the cleanup of the last run: cancelled = true
cleanupLast(loads) ==
    [i \in 1..Len(loads) |->
        IF i = Len(loads) THEN [loads[i] EXCEPT !.cancelled = TRUE] ELSE loads[i]]

returned(loads) == {i \in 1..Len(loads) : loads[i].order > 0}
returnRun(loads, i, pc) ==
    [loads EXCEPT ![i] = [@ EXCEPT !.pc = pc, !.order = Cardinality(returned(loads)) + 1]]

\* if (!cancelled)
notCancelled(run) == ~run.cancelled

\* the render of useMsaValues after setRows(newRows)
mvRender(newRows) ==
    /\ rows' = newRows
    /\ valueByName' = valueMaps(newRows, normalizeSdg(sdgInput)).byName
    /\ valueByCbsa' = valueMaps(newRows, normalizeSdg(sdgInput)).byCbsa

\* mutant of mvCatch: without setRows([])
mvCatchKeepRows(i, msg) ==
    /\ mvLoads' = returnRun(mvLoads, i, "caught")
    /\ UNCHANGED <<rows, valueByName, valueByCbsa>>
    /\ IF notCancelled(mvLoads[i])
       THEN mvError' = <<msg>> /\ mvLoading' = FALSE
       ELSE UNCHANGED <<mvError, mvLoading>>

\* catch and finally of the run i, for the error message msg
mvCatch(i, msg) ==
    /\ mvLoads' = returnRun(mvLoads, i, "caught")
    /\ IF notCancelled(mvLoads[i])
       THEN mvRender(<<>>) /\ mvError' = <<msg>> /\ mvLoading' = FALSE
       ELSE UNCHANGED <<rows, valueByName, valueByCbsa, mvError, mvLoading>>

ldIdlePt == ptFetchMsa = <<>> /\ ptFetchMetro = <<>> /\ ptPc = "idle"
ldIdleCc == ccRows = <<>> /\ ccPc = "idle"

\* useMsaValues is mounted: useState, then the first run of the effect
InitLoadValues ==
    /\ year \in LdYears
    /\ rows = <<>> /\ mvLoading = TRUE /\ mvError = <<>>
    /\ mvLoads = <<loadRun(year)>>
    /\ sdgInput = "overall" /\ valueByName = <<>> /\ valueByCbsa = <<>>
    /\ ldIdlePt /\ ldIdleCc /\ consoleErrors = <<>>
    /\ NzIdle /\ CwIdle /\ PtIdle /\ CsvIdle /\ ChIdle

\* the dependency list [year] of the effect differs from that of its last
\* run: the effect is due after the render
mvEffectDue == mvLoads # <<>> /\ mvLoads[Len(mvLoads)].year # year

\* the year argument changes: the hook renders with the new year and the
\* state of the previous render (the maps are recomputed from the same rows);
\* the effect runs after this render
MvChangeYear ==
    /\ mvLoads # <<>> /\ Len(mvLoads) < MaxLoads
    /\ ~mvEffectDue
    /\ \E y \in LdYears \ {year} : year' = y
    /\ mvRender(rows)
    /\ UNCHANGED <<mvLoads, mvLoading, mvError, sdgInput,
                   ptFetchMsa, ptFetchMetro, ptPc, ccRows, ccPc, consoleErrors,
                   nzVars, cwVars, ptVars, csvVars, chVars>>

\* the effect after a render with a new year: cleanup of the previous run,
\* then a new run up to its first await (setLoading(true), setError(null));
\* it runs after the commit and before the next render, and the continuation
\* of a load may run before it (the previous run is not cancelled until then)
MvRunEffect ==
    /\ mvEffectDue
    /\ mvLoads' = Append(cleanupLast(mvLoads), loadRun(year))
    /\ mvLoading' = TRUE
    /\ mvError' = <<>>
    /\ UNCHANGED <<year, rows, sdgInput, valueByName, valueByCbsa,
                   ptFetchMsa, ptFetchMetro, ptPc, ccRows, ccPc, consoleErrors,
                   nzVars, cwVars, ptVars, csvVars, chVars>>

\* urlForYear resolves: line 96, and the throw of line 97 for null
MvUrlResolve ==
    /\ \E i \in 1..Len(mvLoads) :
          /\ mvLoads[i].pc = "url"
          /\ IF urlForYear(mvLoads[i].year) # <<>>
             THEN /\ mvLoads' = [mvLoads EXCEPT ![i] = [@ EXCEPT !.pc = "fetch"]]
                  /\ UNCHANGED <<rows, valueByName, valueByCbsa, mvError, mvLoading>>
             ELSE mvCatch(i, notFoundMessage(mvLoads[i].year))
    /\ UNCHANGED <<year, sdgInput,
                   ptFetchMsa, ptFetchMetro, ptPc, ccRows, ccPc, consoleErrors,
                   nzVars, cwVars, ptVars, csvVars, chVars>>

\* fetchCSV resolves: lines 98-99 and 106
MvFetchResolve ==
    /\ \E i \in 1..Len(mvLoads) :
          /\ mvLoads[i].pc = "fetch"
          /\ mvLoads' = returnRun(mvLoads, i, "resolved")
          /\ IF notCancelled(mvLoads[i])
             THEN mvRender(LdYearRows[mvLoads[i].year]) /\ mvLoading' = FALSE
             ELSE UNCHANGED <<rows, valueByName, valueByCbsa, mvLoading>>
    /\ UNCHANGED <<year, sdgInput, mvError,
                   ptFetchMsa, ptFetchMetro, ptPc, ccRows, ccPc, consoleErrors,
                   nzVars, cwVars, ptVars, csvVars, chVars>>

\* the loader of the url or fetchCSV rejects: lines 100-106
MvFetchReject ==
    /\ \E i \in 1..Len(mvLoads) :
          /\ \/ mvLoads[i].pc = "fetch"
             \/ mvLoads[i].pc = "url" /\ urlForYear(mvLoads[i].year) # <<>>
          /\ mvCatch(i, FetchErrorMessage)
    /\ UNCHANGED <<year, sdgInput,
                   ptFetchMsa, ptFetchMetro, ptPc, ccRows, ccPc, consoleErrors,
                   nzVars, cwVars, ptVars, csvVars, chVars>>

\* a fetchCSV promise: pending, resolved with its rows, or rejected
pendingFetch == [st |-> "pending", data |-> <<>>]
resolvedFetch(data) == [st |-> "resolved", data |-> data]
rejectedFetch == [st |-> "rejected", data |-> <<>>]

\* the value the await gives for a promise: <<rows>>, or <<>> (undefined)
\* when it has none
fetchValue(f) == IF f.st = "resolved" THEN <<f.data>> ELSE <<>>

\* mutant of promiseAllFulfilled: the first promise alone
promiseFirstFulfilled(a, b) == a.st = "resolved"

\* Promise.all([a, b]) is fulfilled / rejected
promiseAllFulfilled(a, b) == a.st = "resolved" /\ b.st = "resolved"
promiseAllRejected(a, b) == a.st = "rejected" \/ b.st = "rejected"

\* the rows of the two files of useMsaPoints: one area, with a value or a
\* coordinate that is a decimal, empty, absent, infinite or not a number
LdMsaRows == {
    << <<"area_name", "Anchorage, AK">>, <<"sdg", "SDG-01">>, <<"sdg_lq", "1.23">> >>,
    << <<"area_name", "Anchorage, AK">>, <<"sdg", "SDG-01">>, <<"sdg_lq", "">> >>,
    << <<"area_name", "Anchorage, AK">>, <<"sdg", "SDG-01">> >>,
    << <<"area_name", "Anchorage, AK">>, <<"sdg", "SDG-01">>, <<"sdg_lq", "Infinity">> >>,
    << <<"area_name", "Anchorage, AK">>, <<"sdg", "SDG-01">>, <<"sdg_lq", "abc">> >> }
LdMetroRows == {
    << <<"metro", "Anchorage, AK Metro Area">>, <<"state_id", "AK">>,
       <<"lat", "61.2">>, <<"lng", "-149.9">> >>,
    << <<"metro", "Anchorage, AK Metro Area">>, <<"state_id", "AK">>,
       <<"lat", "">>, <<"lng", "-149.9">> >>,
    << <<"metro", "Anchorage, AK Metro Area">>, <<"state_id", "AK">>,
       <<"lat", "61.2">> >>,
    << <<"metro", "Anchorage, AK Metro Area">>, <<"state_id", "AK">>,
       <<"lat", "Infinity">>, <<"lng", "-149.9">> >>,
    << <<"metro", "Anchorage, AK Metro Area">>, <<"state_id", "AK">>,
       <<"lat", "61.2">>, <<"lng", "n/a">> >>,
    << <<"metro", "">>, <<"state_id", "AK">>, <<"lat", "61.2">>, <<"lng", "-149.9">> >> }

\* the tables of the two files: empty, or one row
LdMsaTables == {<<>>} \cup {<<r>> : r \in LdMsaRows}
LdMetroTables == {<<>>} \cup {<<r>> : r \in LdMetroRows}

ldIdleMv == year = 0 /\ mvError = <<>> /\ mvLoads = <<>>

\* useMsaPoints is mounted: useState, then the effect up to the await
InitLoadPoints ==
    /\ msaRows = <<>> /\ metroRows = <<>> /\ ptLoading = TRUE
    /\ selectedSDG = "1" /\ points = <<>>
    /\ ptFetchMsa = pendingFetch /\ ptFetchMetro = pendingFetch /\ ptPc = "await"
    /\ ldIdleMv /\ ldIdleCc /\ consoleErrors = <<>>
    /\ NzIdle /\ CwIdle /\ MvIdle /\ CsvIdle /\ ChIdle

PtFetchMsaResolve ==
    /\ ptFetchMsa = pendingFetch
    /\ \E data \in LdMsaTables : ptFetchMsa' = resolvedFetch(data)
    /\ UNCHANGED <<ptFetchMetro, ptPc, year, mvError, mvLoads, ccRows, ccPc, consoleErrors,
                   nzVars, cwVars, ptVars, mvVars, csvVars, chVars>>

PtFetchMsaReject ==
    /\ ptFetchMsa = pendingFetch
    /\ ptFetchMsa' = rejectedFetch
    /\ UNCHANGED <<ptFetchMetro, ptPc, year, mvError, mvLoads, ccRows, ccPc, consoleErrors,
                   nzVars, cwVars, ptVars, mvVars, csvVars, chVars>>

PtFetchMetroResolve ==
    /\ ptFetchMetro = pendingFetch
    /\ \E data \in LdMetroTables : ptFetchMetro' = resolvedFetch(data)
    /\ UNCHANGED <<ptFetchMsa, ptPc, year, mvError, mvLoads, ccRows, ccPc, consoleErrors,
                   nzVars, cwVars, ptVars, mvVars, csvVars, chVars>>

PtFetchMetroReject ==
    /\ ptFetchMetro = pendingFetch
    /\ ptFetchMetro' = rejectedFetch
    /\ UNCHANGED <<ptFetchMsa, ptPc, year, mvError, mvLoads, ccRows, ccPc, consoleErrors,
                   nzVars, cwVars, ptVars, mvVars, csvVars, chVars>>

\* the await of line 698 gives [msa, metros]; setMsaRows(msa), line 701
PtSetMsaRows ==
    /\ ptPc = "await" /\ promiseAllFulfilled(ptFetchMsa, ptFetchMetro)
    /\ msaRows' = fetchValue(ptFetchMsa)
    /\ points' = pointsMemo(fetchValue(ptFetchMsa), metroRows, selectedSDG)
    /\ ptPc' = "msaSet"
    /\ UNCHANGED <<metroRows, ptLoading, selectedSDG, ptFetchMsa, ptFetchMetro,
                   year, mvError, mvLoads, ccRows, ccPc, consoleErrors,
                   nzVars, cwVars, mvVars, csvVars, chVars>>

\* setMetroRows(metros), line 702
PtSetMetroRows ==
    /\ ptPc = "msaSet"
    /\ metroRows' = fetchValue(ptFetchMetro)
    /\ points' = pointsMemo(msaRows, fetchValue(ptFetchMetro), selectedSDG)
    /\ ptPc' = "metroSet"
    /\ UNCHANGED <<msaRows, ptLoading, selectedSDG, ptFetchMsa, ptFetchMetro,
                   year, mvError, mvLoads, ccRows, ccPc, consoleErrors,
                   nzVars, cwVars, mvVars, csvVars, chVars>>

\* the await of line 698 throws; console.error and setMsaRows([]), lines 704-705
PtCatch ==
    /\ ptPc = "await" /\ promiseAllRejected(ptFetchMsa, ptFetchMetro)
    /\ consoleErrors' = Append(consoleErrors, "CSV load error")
    /\ msaRows' = << <<>> >>
    /\ points' = pointsMemo(<< <<>> >>, metroRows, selectedSDG)
    /\ ptPc' = "msaCleared"
    /\ UNCHANGED <<metroRows, ptLoading, selectedSDG, ptFetchMsa, ptFetchMetro,
                   year, mvError, mvLoads, ccRows, ccPc,
                   nzVars, cwVars, mvVars, csvVars, chVars>>

\* setMetroRows([]), line 706
PtClearMetroRows ==
    /\ ptPc = "msaCleared"
    /\ metroRows' = << <<>> >>
    /\ points' = pointsMemo(msaRows, << <<>> >>, selectedSDG)
    /\ ptPc' = "metroCleared"
    /\ UNCHANGED <<msaRows, ptLoading, selectedSDG, ptFetchMsa, ptFetchMetro,
                   year, mvError, mvLoads, ccRows, ccPc, consoleErrors,
                   nzVars, cwVars, mvVars, csvVars, chVars>>

\* finally: setLoading(false), line 708
PtFinally ==
    /\ ptPc \in {"metroSet", "metroCleared"}
    /\ ptLoading' = FALSE
    /\ ptPc' = "done"
    /\ UNCHANGED <<msaRows, metroRows, selectedSDG, points, ptFetchMsa, ptFetchMetro,
                   year, mvError, mvLoads, ccRows, ccPc, consoleErrors,
                   nzVars, cwVars, mvVars, csvVars, chVars>>

\* the tables of the centroid file
LdCentroidTables ==
    {<<>>, << << <<"GEOID", "11260">>, <<"NAME", "Anchorage, AK">>,
                 <<"lat", "61.2">>, <<"lng", "-149.9">> >> >>}

\* useCbsaCentroids is mounted: useState, then the effect up to the await
InitLoadCentroids ==
    /\ ccRows = <<>> /\ ccPc = "await"
    /\ ldIdleMv /\ ldIdlePt /\ consoleErrors = <<>>
    /\ NzIdle /\ CwIdle /\ PtIdle /\ MvIdle /\ CsvIdle /\ ChIdle

\* fetchCSV resolves: setRows(data), lines 34-35
CcFetchResolve ==
    /\ ccPc = "await"
    /\ \E data \in LdCentroidTables : ccRows' = data
    /\ ccPc' = "resolved"
    /\ UNCHANGED <<year, mvError, mvLoads, ptFetchMsa, ptFetchMetro, ptPc, consoleErrors,
                   nzVars, cwVars, ptVars, mvVars, csvVars, chVars>>

\* fetchCSV rejects: console.error and setRows([]), lines 39-41
CcFetchReject ==
    /\ ccPc = "await"
    /\ consoleErrors' = Append(consoleErrors, "centroids load error")
    /\ ccRows' = <<>>
    /\ ccPc' = "caught"
    /\ UNCHANGED <<year, mvError, mvLoads, ptFetchMsa, ptFetchMetro, ptPc,
                   nzVars, cwVars, ptVars, mvVars, csvVars, chVars>>

InitLoad == InitLoadValues \/ InitLoadPoints \/ InitLoadCentroids

NextLoad ==
    \/ MvChangeYear \/ MvRunEffect \/ MvUrlResolve \/ MvFetchResolve \/ MvFetchReject
    \/ PtFetchMsaResolve \/ PtFetchMsaReject \/ PtFetchMetroResolve \/ PtFetchMetroReject
    \/ PtSetMsaRows \/ PtSetMetroRows \/ PtCatch \/ PtClearMetroRows \/ PtFinally
    \/ CcFetchResolve \/ CcFetchReject

SpecLoad == InitLoad /\ [][NextLoad]_vars

(***************************************************************************)
(* Claims on the load effects                                              *)
(***************************************************************************)
\* the run of the load effect for the year selected last
LastRun == mvLoads[Len(mvLoads)]
\* the rows a returned run stands for: those of its file, none after a throw
ResultRows(run) == IF run.pc = "resolved" THEN LdYearRows[run.year] ELSE <<>>

\* the state of useMsaValues is that of the last run of the effect, which is
\* the run for the last year once the effect has run: while it is in flight
\* loading and no error, after its return its rows and its error
C14_LastRunGoverns ==
    mvLoads # <<>> =>
        /\ ~mvEffectDue => LastRun.year = year
        /\ ~LastRun.cancelled
        /\ LastRun.order = 0 => (mvLoading /\ mvError = <<>>)
        /\ LastRun.order > 0 =>
              /\ ~mvLoading
              /\ rows = ResultRows(LastRun)
              /\ (mvError # <<>>) <=> (LastRun.pc = "caught")

\* the return of a run for a superseded year (a later run exists, or the year
\* argument is no longer the year of the run) writes nothing
C14_SupersededWritesNothing ==
    \A i \in 1..Len(mvLoads) :
        (/\ i < Len(mvLoads) \/ mvLoads[i].year # year
         /\ Len(mvLoads') = Len(mvLoads)
         /\ mvLoads[i].order = 0 /\ mvLoads'[i].order > 0)
        => UNCHANGED <<rows, mvError, mvLoading>>

\* C14: for any year changes and any completion order of the loads, a load
\* started for a superseded year writes neither rows, error nor loading when
\* it returns; a newer year's result is never overwritten by an older one,
\* and once all loads have returned rows are those of the year selected last.
C14_StaleLoadsIgnored ==
    [] C14_LastRunGoverns /\ [][C14_SupersededWritesNothing]_vars

\* null or the empty array
NoRows(state) == state = <<>> \/ state = << <<>> >>

\* C15: the join never runs on partial input: points is empty in every state
\* where one of the two loads has not completed, and the row sets are set
\* only after both fetches have resolved.
C15_JoinAfterBothLoads ==
    ptPc # "idle" =>
        /\ (msaRows = <<>> \/ metroRows = <<>>) => points = <<>>
        /\ (ptFetchMsa.st # "resolved" \/ ptFetchMetro.st # "resolved") =>
              (points = <<>> /\ NoRows(msaRows) /\ NoRows(metroRows))
        /\ ~NoRows(msaRows) => msaRows = <<ptFetchMsa.data>>
        /\ ~NoRows(metroRows) => metroRows = <<ptFetchMetro.data>>
        /\ points # <<>> => (msaRows = <<ptFetchMsa.data>> /\ metroRows = <<ptFetchMetro.data>>)

\* the indicator table has arrived with a row, the coordinate table has not
C15_Witness ==
    /\ ptPc = "await"
    /\ ptFetchMsa.st = "resolved" /\ ptFetchMsa.data # <<>>
    /\ ptFetchMetro.st = "pending"
    /\ msaRows = <<>> /\ metroRows = <<>> /\ points = <<>>

Logged(msg) == \E i \in 1..Len(consoleErrors) : consoleErrors[i] = msg

\* C16: at every load boundary a load that throws (in useMsaValues also a
\* year without a CSV URL) gives an empty result set and a recorded error
\* message, with loading finished; the failure is caught in the effect.
C16_LoadFailureRecovered ==
    /\ (mvLoads # <<>> /\ LastRun.pc = "caught") =>
          /\ rows = <<>> /\ valueByName = <<>> /\ valueByCbsa = <<>>
          /\ mvError \in {<<FetchErrorMessage>>, <<notFoundMessage(LastRun.year)>>}
          /\ ~mvLoading
    /\ (mvLoads # <<>> /\ LastRun.order > 0 /\ LastRun.year \notin AllCsvYears) =>
          (LastRun.pc = "caught" /\ mvError = <<notFoundMessage(LastRun.year)>>)
    /\ (ptPc = "done" /\ promiseAllRejected(ptFetchMsa, ptFetchMetro)) =>
          /\ msaRows = << <<>> >> /\ metroRows = << <<>> >> /\ points = <<>>
          /\ Logged("CSV load error")
          /\ ~ptLoading
    /\ ccPc = "caught" => (ccRows = <<>> /\ Logged("centroids load error"))

\* year 2000 is loaded, then year 2099, which has no file, is selected
C16_Witness ==
    /\ Len(mvLoads) = 2
    /\ mvLoads[1].year = 2000 /\ mvLoads[1].pc = "resolved" /\ mvLoads[1].order = 1
    /\ mvLoads[2].year = 2099 /\ mvLoads[2].pc = "caught"
    /\ rows = <<>> /\ mvError = <<"CSV not found for year 2099">> /\ ~mvLoading

(***************************************************************************)
(* Claims on the values and coordinates of the points                      *)
(***************************************************************************)
\* the field is present under its key, is not blank, and is a decimal
HasFiniteText(row, key) ==
    /\ rowGet(row, key) # <<>>
    /\ trim(rowGet(row, key)[1]) # ""
    /\ isFinite(Number(rowGet(row, key)[1]))
TextNumber(row, key) == Number(rowGet(row, key)[1])

PtTablesSet == ptPc # "idle" /\ msaRows # <<>> /\ metroRows # <<>>

\* C17: a coordinate row is indexed only if its city is non-empty and its
\* latitude and longitude fields both parse as finite numbers; a row with a
\* missing, empty, non-numeric or infinite coordinate is skipped, so every
\* point has finite lat and lng taken from the text of the row.
C17_IndexOnlyFiniteCoordinates ==
    PtTablesSet =>
        /\ \A i \in 1..Len(metroRows[1]) :
              metroNormAt(metroRows[1][i]) # <<>> =>
                  /\ HasFiniteText(metroRows[1][i], "lat")
                  /\ HasFiniteText(metroRows[1][i], "lng")
        /\ \A j \in 1..Len(points) :
              \E i \in 1..Len(metroRows[1]) :
                  /\ HasFiniteText(metroRows[1][i], "lat")
                  /\ HasFiniteText(metroRows[1][i], "lng")
                  /\ points[j].lat = TextNumber(metroRows[1][i], "lat")
                  /\ points[j].lng = TextNumber(metroRows[1][i], "lng")

\* C18: a matched indicator row whose value field is non-numeric, missing,
\* empty or infinite gives no point, so every point carries a finite sdg_lq
\* that was present in the row.
C18_PointValuePresentAndFinite ==
    PtTablesSet =>
        \A j \in 1..Len(points) :
            \E i \in 1..Len(msaRows[1]) :
                /\ HasFiniteText(msaRows[1][i], "sdg_lq")
                /\ points[j].sdg_lq = TextNumber(msaRows[1][i], "sdg_lq")


(***************************************************************************)
(* Claims on the codes and the null values of the aggregator               *)
(***************************************************************************)
\* the value of the first column of the row named k, whatever the case: ""
\* when there is none
ColumnText(row, k) ==
    LET hits == {i \in 1..Len(row) : toLowerCase(row[i][1]) = toLowerCase(k)} IN
    IF hits = {} THEN "" ELSE row[CHOOSE i \in hits : \A j \in hits : i <= j][2]

\* the code of a row: its CBSA column, else its GEOID column, trimmed
RowCode(row) ==
    IF trim(ColumnText(row, "CBSA")) # "" THEN trim(ColumnText(row, "CBSA"))
    ELSE trim(ColumnText(row, "GEOID"))

\* the first non-empty code among the rows of the area a, "" when none has one
GroupCode(a) ==
    LET coded == {i \in RowsOfArea(a) : RowCode(rows[i]) # ""} IN
    IF coded = {} THEN "" ELSE RowCode(rows[CHOOSE i \in coded : \A j \in coded : i <= j])

AreasOfRows == {rowFieldsAt(rows[i]).area : i \in 1..Len(rows)} \ {""}

\* C19: if any row of an area group has a non-empty code in a CBSA or GEOID
\* column, the value of the group is also stored in the code-keyed map under
\* the first non-empty code of the rows of the group, trimmed, whichever row
\* and whichever alias column holds it.
C19_GroupCodeStored ==
    (mvLoads = <<>> /\ ~mvLoading /\ rows # <<>>) =>
        \A a \in AreasOfRows :
            GroupCode(a) # "" =>
                /\ GroupCode(a) \in DOMAIN valueByCbsa
                /\ valueByCbsa[GroupCode(a)] = valueByName[a]

\* the rows of the area a that apply to the requested category: those of the
\* category, or all of them for overall when the area has no overall row
ApplicableRows(a) ==
    LET wanted == normalizeSdg(sdgInput)
        ofWanted == {i \in RowsOfArea(a) : rowFieldsAt(rows[i]).sdg = wanted}
    IN IF wanted = "overall" /\ ofWanted = {} THEN RowsOfArea(a) ELSE ofWanted

\* C20: the value of an area group is null whenever no row that applies to
\* the requested category has a value field that parses as a finite number:
\* no row of the category, or value fields that are missing or empty; a
\* missing or empty value is never averaged in as a number.
C20_NullWithoutFiniteValue ==
    (mvLoads = <<>> /\ ~mvLoading /\ rows # <<>>) =>
        \A a \in AreasOfRows :
            (\A i \in ApplicableRows(a) : ~HasFiniteText(rows[i], "sdg_lq")) =>
                valueByName[a] = Null

(***************************************************************************)
(* Claims on the row selection of the aggregator                           *)
(***************************************************************************)
\* the rows of the area a whose normalized category is the requested one
SelectedRows(a) ==
    {i \in RowsOfArea(a) : rowFieldsAt(rows[i]).sdg = normalizeSdg(sdgInput)}
FiniteSelectedRows(a) == {i \in SelectedRows(a) : isFinite(rowFieldsAt(rows[i]).value)}

\* C21: requested "overall" and a group with an "overall" row: the value is
\* the mean of the finite values of the "overall" rows only; any other
\* requested category: the mean of the finite values of exactly the rows of
\* that normalized category.
C21_RowSelection ==
    (mvLoads = <<>> /\ ~mvLoading /\ rows # <<>>) =>
        \A a \in AreasOfRows :
            (normalizeSdg(sdgInput) # "overall" \/ SelectedRows(a) # {}) =>
                /\ FiniteSelectedRows(a) # {} =>
                      IsMeanOf(valueByName[a], FiniteSelectedRows(a))
                /\ FiniteSelectedRows(a) = {} => valueByName[a] = Null

\* an "overall" row of 30 beside a row of 10 of the same area
C21_Witness ==
    /\ mvLoads = <<>> /\ ~mvLoading /\ sdgInput = "overall"
    /\ rows = << << <<"area_name", "Anchorage, AK">>, <<"sdg", "SDG-01">>, <<"sdg_lq", "10">> >>,
                 << <<"area_name", "anchorage,  AK">>, <<"sdg", "overall">>, <<"sdg_lq", "30">> >> >>
    /\ valueByName = [a \in {"anchorage, ak"} |-> Fin(30, 1)]

(***************************************************************************)
(* The two pick functions (components/SdgChoropleth.tsx,                   *)
(* hooks/useMsaValues.ts) as calls on a row and a list of candidate keys   *)
(***************************************************************************)
\* the column names and the values of the rows, the candidate lists
PickKeys == {"metro", "Metro", "METRO", "name"}
PickValues == {"", "x", " y "}
PickCandidates == {<<>>, <<"metro">>, <<"Metro">>, <<"metro", "name">>, <<"name", "metro">>}

\* most columns of a row
MaxPickCols == 2

\* the rows: up to MaxPickCols columns of distinct names
PickRows ==
    {r \in SeqsUpTo(PickKeys \X PickValues, MaxPickCols) :
        \A i, j \in 1..Len(r) : r[i][1] = r[j][1] => i = j}

InitPick == NzIdle /\ CwIdle /\ PtIdle /\ MvIdle /\ CsvIdle /\ ChIdle /\ LdIdle

\* pick of SdgChoropleth.tsx
CallPick ==
    /\ nzFn = "idle"
    /\ \E row \in PickRows, candidates \in PickCandidates :
          /\ nzIn' = <<row, candidates>>
          /\ nzOut' = <<pick(row, candidates)>>
    /\ nzFn' = "pick"
    /\ UNCHANGED <<cwVars, ptVars, mvVars, csvVars, ldVars, chVars>>

\* pick of useMsaValues.ts
CallPickMv ==
    /\ nzFn = "idle"
    /\ \E row \in PickRows, keys \in PickCandidates :
          /\ nzIn' = <<row, keys>>
          /\ nzOut' = <<pickMv(row, keys)>>
    /\ nzFn' = "pickMv"
    /\ UNCHANGED <<cwVars, ptVars, mvVars, csvVars, ldVars, chVars>>

NextPick == CallPick \/ CallPickMv

SpecPick == InitPick /\ [][NextPick]_vars

(***************************************************************************)
(* Claims on pick                                                          *)
(***************************************************************************)
\* the keys tried for the candidates, in order: each candidate, its lowercase
\* form, its uppercase form
RECURSIVE TriedKeys(_)
TriedKeys(candidates) ==
    IF candidates = <<>> THEN <<>>
    ELSE <<Head(candidates), toLowerCase(Head(candidates)), toUpperCase(Head(candidates))>>
         \o TriedKeys(Tail(candidates))

\* the value of the first of the keys under which the row has a non-blank
\* value, "" when there is none
RECURSIVE FirstNonBlank(_, _)
FirstNonBlank(row, keys) ==
    IF keys = <<>> THEN ""
    ELSE IF rowGet(row, Head(keys)) # <<>> /\ trim(rowGet(row, Head(keys))[1]) # ""
         THEN rowGet(row, Head(keys))[1]
    ELSE FirstNonBlank(row, Tail(keys))

\* C22: pick of the point joiner returns the first non-null value that is
\* not empty after trim, trying for each candidate in order the key, its
\* lowercase and its uppercase form, and "" when there is none; an empty
\* value under one case variant does not hide a value under another.
C22_PickFirstNonBlank ==
    nzFn = "pick" => nzOut = <<FirstNonBlank(nzIn[1], TriedKeys(nzIn[2]))>>

\* C23: for every row and every candidate list, pick of the aggregator
\* returns the same value as pick of the point joiner.
C23_PicksAgree ==
    /\ nzFn = "pick" => nzOut = <<pickMv(nzIn[1], nzIn[2])>>
    /\ nzFn = "pickMv" => nzOut = <<pick(nzIn[1], nzIn[2])>>

(***************************************************************************)
(* normalizeAreaName and normalizeMetroName as calls                       *)
(***************************************************************************)
\* area names without a metro suffix, the spellings of the suffix that may
\* follow them, and the state_id hints
AreaNames == {"", "Anchorage", "Anchorage, AK", "Fairbanks, Alaska", "St. Louis, MO-IL",
              "Portland, OR, USA", "\"Juneau, AK\"", "Springfield, 12", "Kansas City,",
              "New  York , ny"}
SuffixSpellings == {"", " Metro Area", " metropolitan statistical area", "  METRO ",
                    " Metropolitan Area", "Metro"}
StateHints == {"", "AK", "wa", "Alaska", "zz9"}

InitArea == NzIdle /\ CwIdle /\ PtIdle /\ MvIdle /\ CsvIdle /\ ChIdle /\ LdIdle

CallNormalizeAreaName ==
    /\ nzFn = "idle"
    /\ \E raw \in AreaNames, suffix \in SuffixSpellings :
          /\ nzIn' = <<raw \o suffix>>
          /\ nzOut' = <<normalizeAreaName(raw \o suffix)>>
    /\ nzFn' = "normalizeAreaName"
    /\ UNCHANGED <<cwVars, ptVars, mvVars, csvVars, ldVars, chVars>>

CallNormalizeMetroName ==
    /\ nzFn = "idle"
    /\ \E name \in AreaNames, suffix \in SuffixSpellings, stateId \in StateHints :
          /\ nzIn' = <<name \o suffix, stateId>>
          /\ nzOut' = <<normalizeMetroName(name \o suffix, stateId)>>
    /\ nzFn' = "normalizeMetroName"
    /\ UNCHANGED <<cwVars, ptVars, mvVars, csvVars, ldVars, chVars>>

NextArea == CallNormalizeAreaName \/ CallNormalizeMetroName

SpecArea == InitArea /\ [][NextArea]_vars

\* C26: for a name followed by a metro suffix, normalizeMetroName yields the
\* city and state normalizeAreaName yields for the name without the suffix
\* whenever that state is not empty, and the state normStateToken yields for
\* the state_id hint exactly when it is empty (the city being that of the
\* name in both cases).
C26_MetroNameAsAreaName ==
    nzFn = "normalizeMetroName" =>
        \A name \in AreaNames, suffix \in SuffixSpellings :
            nzIn[1] = name \o suffix =>
                LET area == normalizeAreaName(name) IN
                /\ area.state # "" => nzOut[1] = area
                /\ area.state = "" => nzOut[1].state = normStateToken(nzIn[2])
                /\ nzOut[1].city = area.city
                /\ nzOut[1] = normalizeMetroName(name, nzIn[2])

C26_Witness ==
    /\ nzFn = "normalizeMetroName"
    /\ nzIn = <<"Anchorage, AK Metro Area", "wa">>
    /\ nzOut = <<[city |-> "anchorage", state |-> "ak"]>>

\* C29: in every render of useMsaValues with loading = false and error =
\* null, the rows and the value maps are those of the CSV of the year of
\* meta.year (the year argument of the render): the values of the previous
\* year are never returned with the new year as a finished load.
C29_FinishedLoadIsOfMetaYear ==
    (mvLoads # <<>> /\ ~mvLoading /\ mvError = <<>>) =>
        /\ year \in AllCsvYears
        /\ rows = LdYearRows[year]
        /\ valueByName = valueMaps(LdYearRows[year], normalizeSdg(sdgInput)).byName
        /\ valueByCbsa = valueMaps(LdYearRows[year], normalizeSdg(sdgInput)).byCbsa

(***************************************************************************)
(* SdgChoropleth (components/SdgChoropleth.tsx): the data records attached *)
(* to the features for the info panel.  The features are the objects of    *)
(* the geojson prop, which App builds once (countyGeojson); the data prop  *)
(* is App.metrics, rebuilt when the active year changes.                   *)
(***************************************************************************)
\* the ids (GEOID) of the features and the records of the data prop
FeatureIds == {"02020", "02170"}
DataRecords == {[sdg \in {"SDG-01"} |-> 10], [sdg \in {"SDG-01"} |-> 25]}

\* the values of the data prop: a record for some of the ids
DataProps == UNION {[ids -> DataRecords] : ids \in SUBSET FeatureIds}

\* dataLookup.get(String(id)): <<rec>>, or <<>> for undefined
dataLookupGet(data, id) == IF id \in DOMAIN data THEN <<data[id]>> ELSE <<>>

\* lines 351-353 of onEachFeature: the __dataRecord of the feature after the
\* call, attached being its __dataRecord before (<<>> for none)
attachRecord(attached, data, id) ==
    LET rec == dataLookupGet(data, id) IN
    IF rec # <<>> THEN rec ELSE attached

\* region of InfoControl: selected ?? hovered
infoRegion == IF chSelected # <<>> THEN chSelected ELSE chHovered

\* rec of InfoControl: the __dataRecord of the region shown
infoRecord == IF infoRegion = <<>> THEN <<>> ELSE chRecords[infoRegion[1]]

\* SdgChoropleth is rendered with the features of geojson (no __dataRecord)
\* and a data prop; the GeoJSON layer is not created yet
InitChoropleth ==
    /\ chData \in DataProps
    /\ chRecords = [id \in FeatureIds |-> <<>>]
    /\ chLayer = FALSE
    /\ chHovered = <<>> /\ chSelected = <<>>
    /\ NzIdle /\ CwIdle /\ PtIdle /\ MvIdle /\ CsvIdle /\ LdIdle

\* the GeoJSON layer is created (on mount, and again when its key, dataKey ??
\* idProperty, changes): onEachFeature is called for every feature; hovered
\* and selected are state of SdgChoropleth and are kept
ChCreateLayer ==
    /\ chRecords' = [id \in FeatureIds |-> attachRecord(chRecords[id], chData, id)]
    /\ chLayer' = TRUE
    /\ UNCHANGED <<chData, chHovered, chSelected,
                   nzVars, cwVars, ptVars, mvVars, csvVars, ldVars>>

\* the data prop changes (App.metrics of another year); the features and the
\* layer are kept, onEachFeature is not called
ChChangeData ==
    /\ \E data \in DataProps \ {chData} : chData' = data
    /\ UNCHANGED <<chRecords, chLayer, chHovered, chSelected,
                   nzVars, cwVars, ptVars, mvVars, csvVars, ldVars>>

\* mouseover of the layer of a feature: setHovered(feature)
ChMouseOver ==
    /\ chLayer
    /\ \E id \in FeatureIds : chHovered' = <<id>>
    /\ UNCHANGED <<chData, chRecords, chLayer, chSelected,
                   nzVars, cwVars, ptVars, mvVars, csvVars, ldVars>>

\* mouseout of the layer of a feature:
\* setHovered((prev) => (prev === feature ? null : prev))
ChMouseOut ==
    /\ chLayer
    /\ \E id \in FeatureIds : chHovered' = IF chHovered = <<id>> THEN <<>> ELSE chHovered
    /\ UNCHANGED <<chData, chRecords, chLayer, chSelected,
                   nzVars, cwVars, ptVars, mvVars, csvVars, ldVars>>

\* click on the layer of a feature:
\* setSelected((prev) => (prev === feature ? null : feature))
ChClick ==
    /\ chLayer
    /\ \E id \in FeatureIds : chSelected' = IF chSelected = <<id>> THEN <<>> ELSE <<id>>
    /\ UNCHANGED <<chData, chRecords, chLayer, chHovered,
                   nzVars, cwVars, ptVars, mvVars, csvVars, ldVars>>

NextChoropleth == ChCreateLayer \/ ChChangeData \/ ChMouseOver \/ ChMouseOut \/ ChClick

SpecChoropleth == InitChoropleth /\ [][NextChoropleth]_vars

\* C30: once the layer exists, the __dataRecord of every feature is the
\* record the current data prop holds for the id of the feature, and is
\* absent when the data prop has none, also after the data prop has changed
\* while the features are reused; the info panel reads that record.
C30_RecordOfCurrentData ==
    chLayer =>
        /\ \A id \in FeatureIds :
              chRecords[id] = IF id \in DOMAIN chData THEN <<chData[id]>> ELSE <<>>
        /\ infoRegion # <<>> =>
              infoRecord = IF infoRegion[1] \in DOMAIN chData
                           THEN <<chData[infoRegion[1]]>> ELSE <<>>

====
